---- MODULE Spec2Model ----
(***************************************************************************)
(* Model of WebCore's styled-image layer: StyleCachedImage, StyleMultiImage, *)
(* StyleFilterImage and StyleCrossfadeImage, together with the CachedImage   *)
(* handle they load and the StyleImageClient observers they notify.          *)
(*                                                                           *)
(* All code runs on one thread.  Every action below is one complete handler; *)
(* calls a handler makes into other objects of the layer are part of the     *)
(* same action.  ASSERT() is compiled out of release builds, so an ASSERT is *)
(* not a guard of the handler that contains it.                              *)
(*                                                                           *)
(* The module also models HTMLToken and its HTMLTokenAttributeList.  There   *)
(* the caller is the tokenizer, which the actions play: they call a function *)
(* only in the states its ASSERTs name, and a function without an ASSERT in  *)
(* every state.                                                              *)
(***************************************************************************)
EXTENDS Integers, FiniteSets, Sequences, TLC

\* ------------------------------------------------------------------ bounds
NumRenderers == 2
MaxCount == 3
MaxElements == 2
MaxCandidates == 3
MaxSizes == 2
MaxImages == 2

\* The attribute buffer: inlineCapacity is 1024 in HTMLTokenAttributeList; the
\* model takes a small one so that a token outgrows it.  MaxBufferIndex bounds
\* m_size, MaxCharacter the UChars, MaxSpan the length of a span handed over in
\* one call and MaxData the length of the token's m_data.
inlineCapacity == 4
MaxBufferIndex == 6
MaxCharacter == 2
MaxSpan == 2
MaxData == 2

\* --------------------------------------------------------------- universes
Renderers == { "r" \o ToString(i) : i \in 1..NumRenderers }

\* The generated images that register themselves as clients of their inputs:
\* the filter images F and G, the cross-fade images X and Y, and the cross-fade
\* image Z that StyleCrossfadeImage::blend makes of Y.
Generated == { "F", "X", "G", "Y", "Z" }

\* Everything that can be a StyleImageClient of a StyleCachedImage.
Observers == Renderers \cup Generated

\* StyleCachedImage instances: A and B are the candidates of the MultiImage,
\* C is the copy made by copyOverridingScaleFactor, D is the input of the
\* filter image F and of the cross-fade image X, S is used on its own.
Images == { "A", "B", "C", "D", "S" }

\* CSSImageValue instances (one CachedImage handle per value).
CssValues == { "vA", "vB", "vD", "vS" }

LoadStates == { "NotRequested", "Pending", "Loaded", "DecodeError" }

\* What the loader can answer to a request: no handle, or the handle of the
\* resource the request names.
LoaderResults == { "null", "handle" }

VARIABLES
    css,        \* CSSImageValue: "unset" | "null" | "handle" (its m_cachedImage)
    handle,     \* CachedImage of the resource a value names:
                \* [load: LoadStates, image: BOOLEAN (rawImage exists)]
    hClients,   \* CachedImage's client counted set, restricted to StyleCachedImages
    img,        \* the StyleCachedImage objects
    multi,      \* the StyleMultiImage object M
    gen,        \* the StyleFilterImages and StyleCrossfadeImages: their ready
                \* flag, whether they exist, and their inputs ("-": none)
    canvas,     \* the StyleCanvasImage K and the canvas elements of its name
    loadCount,  \* history: number of load() calls that reached each StyleImage
    token,      \* the HTMLToken the tokenizer fills, with its attribute list
    ev          \* history: the last handler that ran and what it did

vars == << css, handle, hClients, img, multi, gen, canvas, loadCount, token, ev >>

\* ----------------------------------------------------------------- helpers
\* The concrete sizes generated images are cached for and the images made for
\* them; 0 stands for no image.
CachedSizes == 1..MaxSizes

GeneratedImages == 1..MaxImages

\* m_images of a StyleGeneratedImage that has cached nothing.
NoCachedImages == [ size \in CachedSizes |-> 0 ]

ZeroCounts == [ o \in Observers |-> 0 ]

Keys(counts) == { o \in Observers : counts[o] > 0 }

\* The number of registrations renderers hold in a counted set.
RECURSIVE RegistrationsOf(_, _)
RegistrationsOf(counts, todo) ==
    IF todo = {} THEN 0
    ELSE LET c == CHOOSE x \in todo : TRUE
         IN  counts[c] + RegistrationsOf(counts, todo \ {c})

Registrations(counts) == RegistrationsOf(counts, Renderers)

RECURSIVE Perms(_)
Perms(S) ==
    IF S = {} THEN { << >> }
    ELSE UNION { { << x >> \o p : p \in Perms(S \ {x}) } : x \in S }

\* The world a handler works on: the program state plus the log of what the
\* handler did so far (container-context calls received and delivered, per
\* StyleCachedImage whether a call found it pending, and the buffer writes of
\* the attribute list, which start anew with each handler).
World ==
    [ css |-> css, handle |-> handle, hClients |-> hClients,
      img |-> [ s \in DOMAIN img |-> [ img[s] EXCEPT !.usedWhilePending = FALSE ] ],
      multi |-> multi, gen |-> gen, canvas |-> canvas, loadCount |-> loadCount,
      token |-> [ token EXCEPT !.m_attributes.writes = {} ],
      calls |-> ZeroCounts, delivered |-> ZeroCounts ]

NoEvent ==
    [ op |-> "none", target |-> "-", who |-> "-",
      preClients |-> ZeroCounts, preWaiting |-> {}, preForce |-> FALSE,
      preRequests |-> {}, prePending |-> FALSE,
      animating |-> FALSE, partial |-> FALSE, answers |-> {},
      notified |-> {}, removing |-> {}, clientRemoved |-> {},
      removedCalls |-> ZeroCounts, preElement |-> 0, image |-> 0,
      size |-> 0, answer |-> "-",
      context |-> [ from |-> [ width |-> 0, height |-> 0 ],
                    to |-> [ width |-> 0, height |-> 0 ] ],
      dims |-> [ kind |-> "none", width |-> 0, height |-> 0 ],
      candidates |-> << >>, deviceScale |-> 0, selected |-> 0,
      imageSize |-> [ width |-> 0, height |-> 0 ], multiplier |-> 0,
      svgResource |-> FALSE, sizeResult |-> [ width |-> 0, height |-> 0 ],
      opaqueFrames |-> {}, opaque |-> FALSE, finishedLoad |-> {},
      calls |-> ZeroCounts, delivered |-> ZeroCounts,
      result |-> FALSE, seenLoadCalled |-> FALSE, seenSelected |-> "-" ]

\* ------------------------------------------------------- CSSImageValue
\* m_cssValue->cachedImage(): the handle the value already holds, if any.
CSSImageValue_cachedImage(w, v) == w.css[v] = "handle"

\* m_cssValue->loadImage(loader, options): the first call asks the loader and
\* keeps the answer; later calls return what was kept.  The loader starts the
\* load of a resource nobody requested before and shares the handle of one
\* that it already holds.
CSSImageValue_loadImage(w, v, answer) ==
    IF w.css[v] # "unset" THEN w
    ELSE IF answer = "null" THEN [ w EXCEPT !.css[v] = "null" ]
    ELSE [ w EXCEPT !.css[v] = "handle",
                    !.handle[v] = IF @.load = "NotRequested"
                                  THEN [ load |-> "Pending", image |-> FALSE ]
                                  ELSE @ ]

\* ---------------------------------------------------- StyleCachedImage
\* The data members as the declaration initialises them.  usedWhilePending is
\* history: the last handler (or, in the initial state, a constructor) reached
\* an ASSERT(!m_isPending) of addClient or removeClient with m_isPending set.
NoImage ==
    [ exists |-> FALSE, cssValue |-> "vA", scaleFactor |-> 1, isPending |-> TRUE,
      cachedImage |-> FALSE, clients |-> ZeroCounts, waiting |-> {},
      force |-> FALSE, requests |-> {}, usedWhilePending |-> FALSE ]

\* StyleCachedImage::StyleCachedImage(Ref<CSSImageValue>&&, float)
StyleCachedImage_create(w, v, scaleFactor) ==
    [ NoImage EXCEPT !.exists = TRUE, !.cssValue = v, !.scaleFactor = scaleFactor,
                     !.cachedImage = CSSImageValue_cachedImage(w, v),
                     !.isPending = ~CSSImageValue_cachedImage(w, v) ]

StyleCachedImage_isPending(i) == i.isPending

\* m_cachedImage ? m_cachedImage->rawImage() : nullptr
StyleCachedImage_image(w, s) ==
    w.img[s].cachedImage /\ w.handle[w.img[s].cssValue].image

\* Variant: the answer is taken from the resource the CSS value names.
StyleCachedImage_hasImage_ofResource(w, s) == w.handle[w.img[s].cssValue].image

\* m_cachedImage && m_cachedImage->hasImage()
StyleCachedImage_hasImage(w, s) == StyleCachedImage_image(w, s)

StyleCachedImage_errorOccurred(w, s) ==
    w.img[s].cachedImage /\ w.handle[w.img[s].cssValue].load = "DecodeError"

\* Variant: every load() makes the loader start the load of the resource anew.
StyleCachedImage_load_requestsAnew(w, s, answer) ==
    LET v == w.img[s].cssValue
        got == answer # "null"
    IN  [ w EXCEPT !.css[v] = IF got THEN "handle" ELSE "null",
                   !.handle[v] = IF got THEN [ load |-> "Pending", image |-> FALSE ] ELSE @,
                   !.img[s].isPending = FALSE,
                   !.img[s].cachedImage = got,
                   !.hClients[s] = IF got THEN @ + 1 ELSE @,
                   !.loadCount[s] = @ + 1 ]

\* StyleCachedImage::imageForRenderer, which ignores the size: nullptr without
\* a CachedImage, else what m_cachedImage->image() answers, the decoded image
\* or Image::nullImage() while there is none.
StyleCachedImage_imageForRenderer(w, s) ==
    IF ~w.img[s].cachedImage THEN "nullptr"
    ELSE IF w.handle[w.img[s].cssValue].image THEN "image"
    ELSE "nullImage"

\* StyleCachedImage::load
StyleCachedImage_load(w, s, answer) ==
    LET v == w.img[s].cssValue
        w1 == CSSImageValue_loadImage(w, v, answer)
        got == w1.css[v] = "handle"
    IN  [ w1 EXCEPT !.img[s].isPending = FALSE,
                    !.img[s].cachedImage = got,
                    !.hClients[s] = IF got THEN @ + 1 ELSE @,
                    !.loadCount[s] = @ + 1 ]

StyleCachedImage_addClient(i, c) ==
    [ i EXCEPT !.clients[c] = @ + 1,
               !.usedWhilePending = @ \/ i.isPending ]

StyleCachedImage_hasClient(i, c) == i.clients[c] > 0

\* The clients that get styleImageClientRemoved when c gives up a registration.
StyleCachedImage_clientRemovedTargets(i, c) ==
    IF i.clients[c] = 1 THEN Keys(i.clients) \ {c} ELSE {}

\* Variant: the fan-out runs whether or not the registration was the last one.
StyleCachedImage_clientRemovedCalls_always(i, c) ==
    [ o \in Observers |->
        IF i.clients[c] > 0 /\ o # c /\ i.clients[o] > 0 THEN 1 ELSE 0 ]

\* How many styleImageClientRemoved calls each client gets from removeClient(c):
\* one per entry left in m_clients, when m_clients.remove(c) answered true.
StyleCachedImage_clientRemovedCalls(i, c) ==
    [ o \in Observers |->
        IF i.clients[c] = 1 /\ o # c /\ i.clients[o] > 0 THEN 1 ELSE 0 ]

\* Variant: m_clients is a plain set, one removeClient drops the client.
StyleCachedImage_removeClient_uncounted(i, c) ==
    [ i EXCEPT !.clients[c] = 0, !.waiting = @ \ {c} ]

\* StyleCachedImage::removeClient; m_clients.remove() answers true when the
\* last registration of the client went away.
StyleCachedImage_removeClient(i, c) ==
    LET i1 == [ i EXCEPT !.usedWhilePending = @ \/ i.isPending ]
    IN  IF i.clients[c] = 0 THEN i1
        ELSE IF i.clients[c] = 1
             THEN [ i1 EXCEPT !.clients[c] = 0, !.waiting = @ \ {c} ]
             ELSE [ i1 EXCEPT !.clients[c] = @ - 1 ]

StyleCachedImage_isClientWaitingForAsyncDecoding(i, c) ==
    i.force \/ c \in i.waiting

StyleCachedImage_addClientWaitingForAsyncDecoding(i, c) ==
    IF i.force \/ c \in i.waiting THEN i
    ELSE IF i.clients[c] = 0 THEN [ i EXCEPT !.force = TRUE ]
    ELSE [ i EXCEPT !.waiting = @ \cup {c} ]

StyleCachedImage_removeAllClientsWaitingForAsyncDecoding(i) ==
    [ i EXCEPT !.waiting = {}, !.force = FALSE ]

\* StyleCachedImage::setContainerContextForRenderer; size 0 is the empty size.
\* m_containerSize, which only the size computations read, is not tracked.
StyleCachedImage_setContainerContextForRenderer(w, s, r, size) ==
    LET w1 == [ w EXCEPT !.calls[r] = @ + 1 ]
    IN  IF size = 0 THEN w1
        ELSE IF ~StyleCachedImage_image(w, s)
             THEN [ w1 EXCEPT !.img[s].requests = @ \cup {r} ]
             ELSE [ w1 EXCEPT !.delivered[r] = @ + 1 ]

\* Variant: the queued requests are sent without asking usesContainerSize().
StyleCachedImage_imageCreated_sendsAlways(w, s, usesContainerSize) ==
    [ w EXCEPT !.img[s].requests = {},
               !.img[s].waiting = {},
               !.img[s].force = FALSE,
               !.delivered = [ r \in Observers |->
                                 IF r \in w.img[s].requests THEN @[r] + 1 ELSE @[r] ] ]

\* StyleCachedImage::imageCreated
StyleCachedImage_imageCreated(w, s, usesContainerSize) ==
    [ w EXCEPT !.img[s].requests = {},
               !.img[s].waiting = {},
               !.img[s].force = FALSE,
               !.delivered = [ r \in Observers |->
                                 IF usesContainerSize /\ r \in w.img[s].requests
                                 THEN @[r] + 1 ELSE @[r] ] ]

\* One pass of "for (auto entry : m_clients) entry.key.callback(...)" over the
\* clients in eligible.  The loop walks the live set: a callback that takes the
\* last registration of its client away erases an entry of the table under the
\* iterator, after which the rest of the walk is undefined; the outcomes kept
\* here are that any of the remaining clients is still visited or is skipped.
FanOutOutcomes(counts, eligible) ==
    { o \in [ notified : SUBSET eligible, removing : SUBSET eligible ] :
        /\ o.removing \subseteq o.notified
        /\ Cardinality(o.removing) <= 1
        /\ (\A c \in o.removing : counts[c] > 1) => o.notified = eligible }

\* Variant: one agreeing client is enough (the early return on the wrong answer).
StyleCachedImage_canDestroyDecodedData_anyAgrees(todo, yes) ==
    todo = {} \/ \E c \in todo : c \in yes

\* canDestroyDecodedData: the loop with its early return, over the clients
\* still to visit.
RECURSIVE StyleCachedImage_canDestroyDecodedData(_, _)
StyleCachedImage_canDestroyDecodedData(todo, yes) ==
    IF todo = {} THEN TRUE
    ELSE LET c == CHOOSE x \in todo : TRUE
         IN  IF c \notin yes THEN FALSE
             ELSE StyleCachedImage_canDestroyDecodedData(todo \ {c}, yes)

\* Variant: the CachedImageClient default (true) is what the loop falls through to.
StyleCachedImage_allowsAnimation_defaultsToTrue(todo, yes) ==
    todo = {} \/ \E c \in todo : c \in yes

\* allowsAnimation: the loop with its early return.
RECURSIVE StyleCachedImage_allowsAnimation(_, _)
StyleCachedImage_allowsAnimation(todo, yes) ==
    IF todo = {} THEN FALSE
    ELSE LET c == CHOOSE x \in todo : TRUE
         IN  IF c \in yes THEN TRUE
             ELSE StyleCachedImage_allowsAnimation(todo \ {c}, yes)

\* Variant: the test on the waiting set left out, every client is called back.
StyleCachedImage_frameAvailableTargets_all(i, animating) == Keys(i.clients)

\* The clients imageFrameAvailable calls back.
StyleCachedImage_frameAvailableTargets(i, animating) ==
    { c \in Keys(i.clients) : ~(~animating /\ ~i.force /\ c \notin i.waiting) }

\* ----------------------------------------------------- StyleMultiImage
\* A StyleMultiImage as constructed: m_state is an empty Pending.
NoPending ==
    [ loadCalled |-> FALSE, state |-> "Pending",
      clients |-> ZeroCounts, waiting |-> {}, force |-> FALSE, requests |-> {} ]

StyleMultiImage_isPending(m) == ~m.loadCalled

\* selectedImage(): "-" stands for nullptr.
StyleMultiImage_selectedImage(m) == IF m.state = "Pending" THEN "-" ELSE m.state

\* StyleMultiImage::equals
StyleMultiImage_equals(m, other) ==
    /\ ~m.loadCalled
    /\ ~other.loadCalled
    /\ StyleMultiImage_selectedImage(m) = StyleMultiImage_selectedImage(other)

StyleMultiImage_addClient(w, c) ==
    IF w.multi.state = "Pending"
    THEN [ w EXCEPT !.multi.clients[c] = @ + 1 ]
    ELSE [ w EXCEPT !.img[w.multi.state] = StyleCachedImage_addClient(@, c) ]

StyleMultiImage_clientRemovedTargets(w, c) ==
    IF w.multi.state = "Pending"
    THEN IF w.multi.clients[c] = 1 THEN Keys(w.multi.clients) \ {c} ELSE {}
    ELSE StyleCachedImage_clientRemovedTargets(w.img[w.multi.state], c)

\* The same count for StyleMultiImage::removeClient.
StyleMultiImage_clientRemovedCalls(w, c) ==
    IF w.multi.state = "Pending"
    THEN [ o \in Observers |->
             IF w.multi.clients[c] = 1 /\ o # c /\ w.multi.clients[o] > 0
             THEN 1 ELSE 0 ]
    ELSE StyleCachedImage_clientRemovedCalls(w.img[w.multi.state], c)

\* StyleMultiImage::removeClient
StyleMultiImage_removeClient(w, c) ==
    IF w.multi.state = "Pending"
    THEN IF w.multi.clients[c] = 0 THEN w
         ELSE [ w EXCEPT !.multi.clients[c] = @ - 1 ]
    ELSE [ w EXCEPT !.img[w.multi.state] = StyleCachedImage_removeClient(@, c) ]

StyleMultiImage_hasClient(w, c) ==
    IF w.multi.state = "Pending"
    THEN w.multi.clients[c] > 0
    ELSE StyleCachedImage_hasClient(w.img[w.multi.state], c)

StyleMultiImage_isClientWaitingForAsyncDecoding(w, c) ==
    IF w.multi.state = "Pending"
    THEN w.multi.force \/ c \in w.multi.waiting
    ELSE StyleCachedImage_isClientWaitingForAsyncDecoding(w.img[w.multi.state], c)

StyleMultiImage_addClientWaitingForAsyncDecoding(w, c) ==
    IF w.multi.state = "Pending"
    THEN IF w.multi.force \/ c \in w.multi.waiting THEN w
         ELSE IF w.multi.clients[c] = 0 THEN [ w EXCEPT !.multi.force = TRUE ]
         ELSE [ w EXCEPT !.multi.waiting = @ \cup {c} ]
    ELSE [ w EXCEPT !.img[w.multi.state] =
                        StyleCachedImage_addClientWaitingForAsyncDecoding(@, c) ]

StyleMultiImage_removeAllClientsWaitingForAsyncDecoding(w) ==
    IF w.multi.state = "Pending"
    THEN [ w EXCEPT !.multi.waiting = {}, !.multi.force = FALSE ]
    ELSE [ w EXCEPT !.img[w.multi.state] =
                        StyleCachedImage_removeAllClientsWaitingForAsyncDecoding(@) ]

StyleMultiImage_setContainerContextForRenderer(w, r, size) ==
    IF size = 0 THEN w
    ELSE IF w.multi.state = "Pending"
         THEN [ w EXCEPT !.multi.requests = @ \cup {r} ]
         ELSE StyleCachedImage_setContainerContextForRenderer(w, w.multi.state, r, size)

\* Variant: the inner loop left out, one addClient per entry of the counted set.
AddClientTimes_once(i, c, n) ==
    IF n = 0 THEN i ELSE StyleCachedImage_addClient(i, c)

\* "for (unsigned i = 0; i < entry.value; ++i) selection->addClient(entry.key)"
RECURSIVE AddClientTimes(_, _, _)
AddClientTimes(i, c, n) ==
    IF n = 0 THEN i ELSE AddClientTimes(StyleCachedImage_addClient(i, c), c, n - 1)

\* "for (auto entry : pending.clients)"
RECURSIVE TransferClients(_, _, _)
TransferClients(i, counts, todo) ==
    IF todo = {} THEN i
    ELSE LET c == CHOOSE x \in todo : TRUE
         IN  TransferClients(AddClientTimes(i, c, counts[c]), counts, todo \ {c})

\* "for (auto& client : pending.clientsWaitingForAsyncDecoding)", in the order
\* the set happens to be walked.
RECURSIVE TransferWaiting(_, _)
TransferWaiting(i, order) ==
    IF order = << >> THEN i
    ELSE TransferWaiting(
             StyleCachedImage_addClientWaitingForAsyncDecoding(i, Head(order)),
             Tail(order))

\* "for (auto request : pending.containerContextRequests)"
RECURSIVE TransferRequests(_, _, _)
TransferRequests(w, s, todo) ==
    IF todo = {} THEN w
    ELSE LET r == CHOOSE x \in todo : TRUE
         IN  TransferRequests(
                 StyleCachedImage_setContainerContextForRenderer(w, s, r, 1),
                 s, todo \ {r})

\* Variant: the selection is loaded without asking whether it is pending.
StyleMultiImage_setSelectedImageAndLoad_unguarded(w, selection, order, answer) ==
    LET pending == w.multi
        w1 == [ w EXCEPT !.img[selection] =
                   TransferClients(@, pending.clients, Keys(pending.clients)) ]
        w2 == [ w1 EXCEPT !.img[selection] = TransferWaiting(@, order) ]
        w3 == TransferRequests(w2, selection, pending.requests)
        w4 == StyleCachedImage_load(w3, selection, answer)
    IN  [ w4 EXCEPT !.multi = [ NoPending EXCEPT !.state = selection,
                                                 !.loadCalled = w4.multi.loadCalled ] ]

\* Variant: m_state is left holding the Pending alternative.
StyleMultiImage_setSelectedImageAndLoad_notInstalled(w, selection, order, answer) ==
    LET pending == w.multi
        w1 == [ w EXCEPT !.img[selection] =
                   TransferClients(@, pending.clients, Keys(pending.clients)) ]
        w2 == [ w1 EXCEPT !.img[selection] = TransferWaiting(@, order) ]
        w3 == TransferRequests(w2, selection, pending.requests)
    IN  IF StyleCachedImage_isPending(w3.img[selection])
        THEN StyleCachedImage_load(w3, selection, answer)
        ELSE w3

\* StyleMultiImage::setSelectedImageAndLoad, Pending alternative.
StyleMultiImage_setSelectedImageAndLoad(w, selection, order, answer) ==
    LET pending == w.multi
        w1 == [ w EXCEPT !.img[selection] =
                   TransferClients(@, pending.clients, Keys(pending.clients)) ]
        w2 == [ w1 EXCEPT !.img[selection] = TransferWaiting(@, order) ]
        w3 == TransferRequests(w2, selection, pending.requests)
        w4 == IF StyleCachedImage_isPending(w3.img[selection])
              THEN StyleCachedImage_load(w3, selection, answer)
              ELSE w3
    IN  [ w4 EXCEPT !.multi = [ NoPending EXCEPT !.state = selection,
                                                 !.loadCalled = w4.multi.loadCalled ] ]

\* StyleCachedImage::copyOverridingScaleFactor; the copy is the object C.
StyleCachedImage_copyOverridingScaleFactor(w, other, scaleFactor) ==
    IF w.img[other].scaleFactor = scaleFactor
    THEN [ world |-> w, image |-> other ]
    ELSE [ world |-> [ w EXCEPT !.img["C"] =
                          StyleCachedImage_create(w, w.img[other].cssValue, scaleFactor) ],
           image |-> "C" ]

\* Variant: m_loadCalled is never set.
StyleMultiImage_load_withoutLoadCalled(w, bestFit, order, answer) ==
    LET w1 == [ w EXCEPT !.loadCount["M"] = @ + 1 ]
        sel == StyleCachedImage_copyOverridingScaleFactor(w1, bestFit.image, bestFit.scaleFactor)
    IN  StyleMultiImage_setSelectedImageAndLoad(sel.world, sel.image, order, answer)

\* StyleMultiImage::load; bestFit is what selectBestFitImage answered.
StyleMultiImage_load(w, bestFit, order, answer) ==
    LET w1 == [ w EXCEPT !.multi.loadCalled = TRUE, !.loadCount["M"] = @ + 1 ]
        sel == StyleCachedImage_copyOverridingScaleFactor(w1, bestFit.image, bestFit.scaleFactor)
    IN  StyleMultiImage_setSelectedImageAndLoad(sel.world, sel.image, order, answer)

\* ------------------------------- StyleFilterImage, StyleCrossfadeImage
\* F is filter(D); X is cross-fade(F, D).
StyleFilterImage_inputImage == "D"

StyleCrossfadeImage_from == "F"

StyleCrossfadeImage_to == "D"

StyleFilterImage_isPending(w) ==
    StyleCachedImage_isPending(w.img[StyleFilterImage_inputImage])

\* StyleFilterImage::load
StyleFilterImage_load(w, answer) ==
    LET w1 == StyleCachedImage_load(w, StyleFilterImage_inputImage, answer)
    IN  [ w1 EXCEPT !.gen["F"].ready = TRUE, !.loadCount["F"] = @ + 1 ]

StyleCrossfadeImage_isPending(w) ==
    \/ StyleFilterImage_isPending(w)
    \/ StyleCachedImage_isPending(w.img[StyleCrossfadeImage_to])

\* StyleCrossfadeImage::load
StyleCrossfadeImage_load(w, answer) ==
    LET w1 == IF StyleFilterImage_isPending(w)
              THEN StyleFilterImage_load(w, answer) ELSE w
        w2 == IF StyleCachedImage_isPending(w1.img[StyleCrossfadeImage_to])
              THEN StyleCachedImage_load(w1, StyleCrossfadeImage_to, answer) ELSE w1
    IN  [ w2 EXCEPT !.gen["X"].ready = TRUE, !.loadCount["X"] = @ + 1 ]

\* StyleFilterImage::StyleFilterImage for the filter image g, built later than
\* F, over the StyleCachedImage inputImage or over no image.  filterOperations
\* is "none" when no operation of the list is a ReferenceFilterOperation, and
\* otherwise the load state of the external document the reference names.
StyleFilterImage_create(w, g, inputImage, filterOperations) ==
    LET w1 == IF inputImage = "-" THEN w
              ELSE [ w EXCEPT !.img[inputImage] = StyleCachedImage_addClient(@, g) ]
    IN  [ w1 EXCEPT !.gen[g] = [ ready |-> FALSE, alive |-> TRUE,
                                 from |-> inputImage, to |-> "-", percentage |-> 0,
                                 filterOperations |-> filterOperations,
                                 images |-> NoCachedImages, clients |-> ZeroCounts ] ]

\* Variant: a filter image without input counts as pending.
StyleFilterImage_isPending_vacuous(w, g) ==
    IF w.gen[g].from = "-" THEN TRUE
    ELSE StyleCachedImage_isPending(w.img[w.gen[g].from])

\* StyleFilterImage::isPending of the filter image g.
StyleFilterImage_isPending_of(w, g) ==
    IF w.gen[g].from = "-" THEN FALSE
    ELSE StyleCachedImage_isPending(w.img[w.gen[g].from])

\* ReferenceFilterOperation::loadExternalDocumentIfNeeded: the load of the
\* external document starts unless it was started before.
ReferenceFilterOperation_loadExternalDocumentIfNeeded(filterOperations) ==
    IF filterOperations = "NotRequested" THEN "Pending" ELSE filterOperations

\* StyleFilterImage::load of the filter image g.
StyleFilterImage_load_of(w, g, answer) ==
    LET w1 == IF w.gen[g].from = "-" THEN w
              ELSE StyleCachedImage_load(w, w.gen[g].from, answer)
    IN  [ w1 EXCEPT !.gen[g].filterOperations =
                        ReferenceFilterOperation_loadExternalDocumentIfNeeded(@),
                    !.gen[g].ready = TRUE ]

\* StyleCrossfadeImage::StyleCrossfadeImage for the cross-fade image g, built
\* later than X, over StyleCachedImages or absent inputs; m_percentage is kept
\* in ten-thousandths.
StyleCrossfadeImage_create(w, g, from, to, percentage) ==
    LET w1 == IF from = "-" THEN w
              ELSE [ w EXCEPT !.img[from] = StyleCachedImage_addClient(@, g) ]
        w2 == IF to = "-" THEN w1
              ELSE [ w1 EXCEPT !.img[to] = StyleCachedImage_addClient(@, g) ]
    IN  [ w2 EXCEPT !.gen[g] = [ ready |-> FALSE, alive |-> TRUE,
                                 from |-> from, to |-> to,
                                 percentage |-> percentage,
                                 filterOperations |-> "none",
                                 images |-> NoCachedImages, clients |-> ZeroCounts ] ]

\* StyleCrossfadeImage::blend of the cross-fade image g: nullptr (no change)
\* unless both inputs are present and hold a CachedImage, else a new cross-fade
\* image z over the same two inputs with the blended percentage.
StyleCrossfadeImage_blend(w, g, z, newPercentage) ==
    LET from == w.gen[g].from
        to == w.gen[g].to
    IN  IF from = "-" \/ ~w.img[from].cachedImage \/ to = "-" \/ ~w.img[to].cachedImage
        THEN w
        ELSE StyleCrossfadeImage_create(w, z, from, to, newPercentage)

\* Variant: only m_from is asked.
StyleCrossfadeImage_isPending_fromOnly(w, g) ==
    w.gen[g].from # "-" /\ StyleCachedImage_isPending(w.img[w.gen[g].from])

\* StyleCrossfadeImage::isPending of the cross-fade image g.
StyleCrossfadeImage_isPending_of(w, g) ==
    IF w.gen[g].from # "-" /\ StyleCachedImage_isPending(w.img[w.gen[g].from])
    THEN TRUE
    ELSE IF w.gen[g].to # "-" /\ StyleCachedImage_isPending(w.img[w.gen[g].to])
         THEN TRUE
         ELSE FALSE

\* StyleCrossfadeImage::load of the cross-fade image g.
StyleCrossfadeImage_load_of(w, g, answer) ==
    LET from == w.gen[g].from
        to == w.gen[g].to
        w1 == IF from # "-" /\ StyleCachedImage_isPending(w.img[from])
              THEN StyleCachedImage_load(w, from, answer) ELSE w
        w2 == IF to # "-" /\ StyleCachedImage_isPending(w1.img[to])
              THEN StyleCachedImage_load(w1, to, answer) ELSE w1
    IN  [ w2 EXCEPT !.gen[g].ready = TRUE ]

\* StyleGeneratedImage::cachedImageForSize: the image kept for the size, 0 if
\* none is.
StyleGeneratedImage_cachedImageForSize(w, g, size) == w.gen[g].images[size]

\* StyleGeneratedImage::saveCachedImageForSize.
StyleGeneratedImage_saveCachedImageForSize(w, g, size, image) ==
    [ w EXCEPT !.gen[g].images[size] = image ]

\* Variant: the eviction empties the cache.
StyleGeneratedImage_evictCachedGeneratedImage_clearsAll(w, g, size) ==
    [ w EXCEPT !.gen[g].images = NoCachedImages ]

\* StyleGeneratedImage::evictCachedGeneratedImage.
StyleGeneratedImage_evictCachedGeneratedImage(w, g, size) ==
    [ w EXCEPT !.gen[g].images[size] = 0 ]

\* LayoutUnit(int): a length is kept as a whole number of 64ths of a pixel.
LayoutUnit(px) == px * 64

\* LayoutSize::isEmpty
LayoutSize_isEmpty(size) == size.width <= 0 \/ size.height <= 0

\* LayoutSize::scaled(widthScale, heightScale); the scales are in 128ths and
\* the products are cut off to whole 64ths of a pixel.
LayoutSize_scaled(size, widthScale, heightScale) ==
    [ width |-> (size.width * widthScale) \div 128,
      height |-> (size.height * heightScale) \div 128 ]

\* LayoutSize::scaledDown(scaleFactor)
LayoutSize_scaledDown(size, scaleFactor) ==
    [ width |-> size.width \div scaleFactor, height |-> size.height \div scaleFactor ]

\* LayoutSize::clampToMinimumSize
LayoutSize_clampToMinimumSize(size, minimumSize) ==
    [ width |-> IF size.width < minimumSize.width THEN minimumSize.width
                ELSE size.width,
      height |-> IF size.height < minimumSize.height THEN minimumSize.height
                 ELSE size.height ]

\* StyleCachedImage::unclampedImageSizeForRenderer; image gives the size of
\* the decoded image for the renderer and whether its width and height are
\* relative, multiplier is in 128ths.
StyleCachedImage_unclampedImageSizeForRenderer(w, s, image, multiplier) ==
    IF ~w.img[s].cachedImage THEN [ width |-> 0, height |-> 0 ]
    ELSE IF ~StyleCachedImage_image(w, s) THEN [ width |-> 0, height |-> 0 ]
    ELSE IF LayoutSize_isEmpty(image.size) \/ multiplier = 128 THEN image.size
    ELSE LayoutSize_scaled(image.size,
                           IF image.hasRelativeWidth THEN 128 ELSE multiplier,
                           IF image.hasRelativeHeight THEN 128 ELSE multiplier)

\* StyleCachedImage::imageSizeForRenderer; svgResource tells whether the URL
\* resolves to an SVG resource for the renderer, containerSize is
\* m_containerSize.
StyleCachedImage_imageSizeForRenderer(w, s, svgResource, containerSize, image, multiplier) ==
    LET imageSize == StyleCachedImage_unclampedImageSizeForRenderer(w, s, image, multiplier)
        minimumSize == [ width |-> IF imageSize.width > 0 THEN LayoutUnit(1) ELSE 0,
                         height |-> IF imageSize.height > 0 THEN LayoutUnit(1) ELSE 0 ]
    IN  IF svgResource THEN containerSize
        ELSE IF LayoutSize_isEmpty(imageSize) \/ multiplier = 128
             THEN LayoutSize_scaledDown(imageSize, w.img[s].scaleFactor)
        ELSE LayoutSize_scaledDown(LayoutSize_clampToMinimumSize(imageSize, minimumSize),
                                   w.img[s].scaleFactor)

\* finalWidth += (image.width * image.percentage): the product is taken on
\* floats and the sum is cut off to a whole number of 64ths; percentage is in
\* ten-thousandths.
LayoutUnit_addProduct(sum, length, percentage) ==
    (sum * 10000 + length * percentage) \div 10000

NaturalDimensions_none == [ kind |-> "none", width |-> 0, height |-> 0 ]

NaturalDimensions_fixed(width, height) ==
    [ kind |-> "fixed", width |-> width, height |-> height ]

\* Variant: the sizes are interpolated even when they are the same.
StyleCrossfadeImage_naturalDimensionsForContext_alwaysInterpolates(w, g, context) ==
    LET p == w.gen[g].percentage
    IN  IF w.gen[g].from = "-" \/ w.gen[g].to = "-" THEN NaturalDimensions_none
        ELSE NaturalDimensions_fixed(
                 LayoutUnit_addProduct(
                     LayoutUnit_addProduct(0, context.from.width, 10000 - p),
                     context.to.width, p),
                 LayoutUnit_addProduct(
                     LayoutUnit_addProduct(0, context.from.height, 10000 - p),
                     context.to.height, p))

\* Variant: m_from is weighted with the percentage and m_to with the rest.
StyleCrossfadeImage_naturalDimensionsForContext_weightsSwapped(w, g, context) ==
    LET p == w.gen[g].percentage
    IN  IF w.gen[g].from = "-" \/ w.gen[g].to = "-" THEN NaturalDimensions_none
        ELSE IF context.from = context.to
             THEN NaturalDimensions_fixed(context.from.width, context.from.height)
             ELSE NaturalDimensions_fixed(
                      LayoutUnit_addProduct(
                          LayoutUnit_addProduct(0, context.from.width, p),
                          context.to.width, 10000 - p),
                      LayoutUnit_addProduct(
                          LayoutUnit_addProduct(0, context.from.height, p),
                          context.to.height, 10000 - p))

\* StyleCrossfadeImage::naturalDimensionsForContext of the cross-fade image g;
\* context gives the concrete object size that the negotiation yields for each
\* input.
StyleCrossfadeImage_naturalDimensionsForContext(w, g, context) ==
    LET from == w.gen[g].from
        to == w.gen[g].to
        p == w.gen[g].percentage
        fromItem == IF from = "-" THEN << >>
                    ELSE << [ width |-> context.from.width,
                              height |-> context.from.height,
                              percentage |-> IF to # "-" THEN 10000 - p ELSE 10000 ] >>
        toItem == IF to = "-" THEN << >>
                  ELSE << [ width |-> context.to.width,
                            height |-> context.to.height,
                            percentage |-> IF from # "-" THEN p ELSE 10000 ] >>
        images == fromItem \o toItem
    IN  IF from = "-" \/ to = "-" THEN NaturalDimensions_none
        ELSE IF Len(images) = 0 THEN NaturalDimensions_none
        ELSE IF Len(images) = 1
             THEN NaturalDimensions_fixed(images[1].width, images[1].height)
        ELSE IF images[1].width = images[2].width /\ images[1].height = images[2].height
             THEN NaturalDimensions_fixed(images[1].width, images[1].height)
        ELSE NaturalDimensions_fixed(
                 LayoutUnit_addProduct(
                     LayoutUnit_addProduct(0, images[1].width, images[1].percentage),
                     images[2].width, images[2].percentage),
                 LayoutUnit_addProduct(
                     LayoutUnit_addProduct(0, images[1].height, images[1].percentage),
                     images[2].height, images[2].percentage))

\* StyleFilterImage::imageForRenderer with a renderer; size 0 is the empty size.
StyleFilterImage_imageForRenderer(w, size) ==
    IF size = 0 THEN "nullptr"
    ELSE IF StyleCachedImage_imageForRenderer(w, StyleFilterImage_inputImage) = "image"
         THEN "image"
         ELSE "nullImage"

\* StyleCrossfadeImage::imageForRenderer with a renderer.
StyleCrossfadeImage_imageForRenderer(w, size) ==
    IF size = 0 THEN "nullptr"
    ELSE IF \/ StyleFilterImage_imageForRenderer(w, size) = "nullptr"
            \/ StyleCachedImage_imageForRenderer(w, StyleCrossfadeImage_to) = "nullptr"
         THEN "nullImage"
         ELSE "image"

\* StyleMultiImage::imageForRenderer
StyleMultiImage_imageForRenderer(w, size) ==
    IF w.multi.state = "Pending" THEN "nullptr"
    ELSE StyleCachedImage_imageForRenderer(w, w.multi.state)

\* StyleGeneratedImage::addClient: m_clients is a counted set.
StyleGeneratedImage_addClient(w, g, c) ==
    [ w EXCEPT !.gen[g].clients[c] = @ + 1 ]

\* StyleGeneratedImage::removeClient
StyleGeneratedImage_removeClient(w, g, c) ==
    [ w EXCEPT !.gen[g].clients[c] = IF @ > 0 THEN @ - 1 ELSE 0 ]

\* StyleFilterImage::styleImageAnimationAllowed: the loop over clients() with
\* its early return; yes: the clients that allow animation, todo: the clients
\* still to visit.
RECURSIVE StyleFilterImage_styleImageAnimationAllowed(_, _)
StyleFilterImage_styleImageAnimationAllowed(todo, yes) ==
    IF todo = {} THEN TRUE
    ELSE LET c == CHOOSE x \in todo : TRUE
         IN  IF c \notin yes THEN FALSE
             ELSE StyleFilterImage_styleImageAnimationAllowed(todo \ {c}, yes)

\* StyleCrossfadeImage::styleImageAnimationAllowed
StyleCrossfadeImage_styleImageAnimationAllowed(todo, yes) == FALSE

\* StyleFilterImage::~StyleFilterImage
StyleFilterImage_destroy(w) ==
    [ w EXCEPT !.img[StyleFilterImage_inputImage] = StyleCachedImage_removeClient(@, "F"),
               !.gen["F"].alive = FALSE ]

\* StyleCrossfadeImage::~StyleCrossfadeImage
StyleCrossfadeImage_destroy(w) ==
    [ StyleGeneratedImage_removeClient(w, StyleCrossfadeImage_from, "X") EXCEPT
        !.img[StyleCrossfadeImage_to] = StyleCachedImage_removeClient(@, "X"),
        !.gen["X"].alive = FALSE ]

\* StyleCachedImage::~StyleCachedImage: the body is empty, the members go
\* away and the CachedImage is told nothing.
StyleCachedImage_destroy(w, s) == [ w EXCEPT !.img[s] = NoImage ]

\* ----------------------------------------------------- StyleCanvasImage
\* The StyleCanvasImage K as constructed.  Canvas elements are numbered from
\* 1; 0 stands for nullptr.  named: the element the document holds under
\* m_name; observed: the elements whose observer list holds K; made: how many
\* elements there have been.
NoCanvas ==
    [ alive |-> TRUE, element |-> 0, named |-> 0, observed |-> {}, made |-> 0 ]

StyleCanvasImage_isPending(c) == FALSE

\* StyleCanvasImage::element(Document&)
StyleCanvasImage_element(c) ==
    IF c.element # 0 THEN c
    ELSE IF c.named = 0 THEN c
    ELSE [ c EXCEPT !.element = c.named, !.observed = @ \cup { c.named } ]

\* StyleCanvasImage::imageForRenderer with a renderer: the canvas afterwards
\* and the element whose copiedImage() is returned (0: nullptr is returned).
StyleCanvasImage_imageForRenderer(c) ==
    LET c1 == StyleCanvasImage_element(c)
    IN  [ canvas |-> c1, image |-> c1.element ]

\* StyleCanvasImage does not override errorOccurred() either.
StyleCanvasImage_errorOccurred(c) == FALSE

\* Variant: m_element is left pointing at the element that went away.
StyleCanvasImage_canvasDestroyed_keepsElement(c) == c

\* StyleCanvasImage::canvasDestroyed
StyleCanvasImage_canvasDestroyed(c) == [ c EXCEPT !.element = 0 ]

\* StyleCanvasImage::~StyleCanvasImage
StyleCanvasImage_destroy(c) ==
    [ c EXCEPT !.observed = IF c.element # 0 THEN @ \ { c.element } ELSE @,
               !.alive = FALSE ]

\* StyleFilterImage does not override errorOccurred(): it answers what
\* StyleImage::errorOccurred answers.
StyleFilterImage_errorOccurred(w) == FALSE

\* Neither does the StyleCrossfadeImage of this tree.
StyleCrossfadeImage_errorOccurred(w) == FALSE

\* StyleMultiImage::hasImage
StyleMultiImage_hasImage(w) ==
    IF w.multi.state = "Pending" THEN FALSE
    ELSE StyleCachedImage_hasImage(w, w.multi.state)

\* StyleMultiImage::errorOccurred
StyleMultiImage_errorOccurred(w) ==
    IF w.multi.state = "Pending" THEN FALSE
    ELSE StyleCachedImage_errorOccurred(w, w.multi.state)

\* ------------------------------------------------------------ HTMLToken
\* The UChars the tokenizer appends (none is 0: ASSERT(character)), the
\* indexes of the attribute buffer the model follows, and a buffer of zeros,
\* which is what Inline { } and std::make_unique<UChar[]>(n) hold.
Characters == 1..MaxCharacter

BufferIndexes == 0..MaxBufferIndex

ZeroBuffer == [ i \in BufferIndexes |-> 0 ]

\* Span<const UChar>: the character sequences handed over in one call.
Spans == UNION { [ 1..n -> Characters ] : n \in 1..MaxSpan }

\* HTMLTokenAttributeList(): an empty list in the inline buffer.  appended is
\* history: the names and values as the calls handed them over; writes is the
\* log of the buffer writes of the running handler, each with the capacity
\* the buffer had when it was written.
HTMLTokenAttributeList_new ==
    [ m_capacity |-> inlineCapacity, m_size |-> 0, m_numberOfAttributes |-> 0,
      m_currentSizeIndex |-> 0, m_state |-> "Initial", m_data |-> ZeroBuffer,
      appended |-> << >>, writes |-> {} ]

\* HTMLTokenAttributeList::clear()
HTMLTokenAttributeList_clear(l) ==
    [ HTMLTokenAttributeList_new EXCEPT !.writes = l.writes ]

\* std::memcpy(&dst[at], src, count): count BYTES, two to a UChar, low byte
\* first.  An element whose two bytes are within count is copied, one whose
\* low byte alone is within count keeps its own high byte.
Memcpy(dst, at, src, count) ==
    [ i \in DOMAIN dst |->
        CASE i >= at /\ 2 * (i - at) + 1 < count -> src[i - at]
          [] i >= at /\ 2 * (i - at) < count /\ 2 * (i - at) + 1 >= count ->
               (dst[i] \div 256) * 256 + (src[i - at] % 256)
          [] OTHER -> dst[i] ]

\* buffer()[index] = value.  A write at an index the buffer does not have is
\* undefined: the slot reads back as stray, whatever the build leaves there.
Store(l, index, value, stray) ==
    [ l EXCEPT !.m_data[index] = IF index < l.m_capacity THEN value ELSE stray,
               !.writes = @ \cup { [ index |-> index, capacity |-> l.m_capacity ] } ]

RECURSIVE NewCapacity(_, _)
NewCapacity(newCapacity, size) ==
    IF size > newCapacity THEN NewCapacity(newCapacity * 2, size) ELSE newCapacity

\* HTMLTokenAttributeList::growIfNecessary(): nothing while m_size <=
\* m_capacity; else a zeroed buffer of doubled capacity that receives
\* m_capacity bytes of the old one.
HTMLTokenAttributeList_growIfNecessary(l) ==
    IF l.m_size <= l.m_capacity THEN l
    ELSE [ l EXCEPT !.m_data = Memcpy(ZeroBuffer, 0, l.m_data, l.m_capacity),
                    !.m_capacity = NewCapacity(l.m_capacity * 2, l.m_size) ]

\* HTMLTokenAttributeList::endAttributeName()
HTMLTokenAttributeList_endAttributeName(l, stray) ==
    LET l1 == HTMLTokenAttributeList_growIfNecessary([ l EXCEPT !.m_size = @ + 1 ])
        lengthOfName == l1.m_size - l1.m_currentSizeIndex - 1
    IN  [ Store(l1, l1.m_currentSizeIndex, lengthOfName % 65536, stray) EXCEPT
            !.m_currentSizeIndex = l1.m_size, !.m_state = "Value" ]

\* HTMLTokenAttributeList::endAttributeValue()
HTMLTokenAttributeList_endAttributeValue(l, stray) ==
    LET l1 == HTMLTokenAttributeList_growIfNecessary([ l EXCEPT !.m_size = @ + 1 ])
        lengthOfValue == l1.m_size - l1.m_currentSizeIndex - 1
    IN  [ Store(l1, l1.m_currentSizeIndex, lengthOfValue % 65536, stray) EXCEPT
            !.m_currentSizeIndex = l1.m_size, !.m_state = "Initial" ]

\* The switch beginAttribute() and endAttribute() share.
FinishOpenAttribute(l, stray) ==
    CASE l.m_state = "Initial" -> l
      [] l.m_state = "Name" ->
           HTMLTokenAttributeList_endAttributeValue(
               HTMLTokenAttributeList_endAttributeName(l, stray), stray)
      [] l.m_state = "Value" -> HTMLTokenAttributeList_endAttributeValue(l, stray)

\* HTMLTokenAttributeList::beginAttribute()
HTMLTokenAttributeList_beginAttribute(l, stray) ==
    [ FinishOpenAttribute(l, stray) EXCEPT
        !.m_state = "Name", !.m_numberOfAttributes = @ + 1,
        !.appended = Append(@, [ name |-> << >>, value |-> << >> ]) ]

\* HTMLTokenAttributeList::appendToAttributeName(UChar), ASSERT(m_state ==
\* State::Name) kept by the caller.
HTMLTokenAttributeList_appendToAttributeName(l, character, stray) ==
    LET l1 == HTMLTokenAttributeList_growIfNecessary([ l EXCEPT !.m_size = @ + 1 ])
    IN  [ Store(l1, l1.m_size, character, stray) EXCEPT
            !.appended[Len(l.appended)].name = Append(@, character) ]

\* The head of both appendToAttributeValue overloads.
EnterValue(l, stray) ==
    IF l.m_state = "Name"
    THEN [ HTMLTokenAttributeList_endAttributeName(l, stray) EXCEPT !.m_state = "Value" ]
    ELSE l

\* HTMLTokenAttributeList::appendToAttributeValue(UChar), ASSERT(m_state !=
\* State::Initial) kept by the caller.
HTMLTokenAttributeList_appendToAttributeValue(l, character, stray) ==
    LET l1 == HTMLTokenAttributeList_growIfNecessary(
                  [ EnterValue(l, stray) EXCEPT !.m_size = @ + 1 ])
    IN  [ Store(l1, l1.m_size, character, stray) EXCEPT
            !.appended[Len(l.appended)].value = Append(@, character) ]

\* HTMLTokenAttributeList::appendToAttributeValue(Span<const UChar>): m_size
\* grows by the number of characters and memcpy receives that number as its
\* byte count.
HTMLTokenAttributeList_appendToAttributeValueSpan(l, characters, stray) ==
    LET l0 == EnterValue(l, stray)
        existingSize == l0.m_size
        l1 == HTMLTokenAttributeList_growIfNecessary(
                  [ l0 EXCEPT !.m_size = @ + Len(characters) ])
        data == [ k \in 0..(Len(characters) - 1) |-> characters[k + 1] ]
        touched == { i \in BufferIndexes :
                       i > existingSize /\ 2 * (i - existingSize - 1) < Len(characters) }
        copied == Memcpy(l1.m_data, existingSize + 1, data, Len(characters))
    IN  [ l1 EXCEPT
            !.m_data = [ i \in BufferIndexes |->
                           IF i \in touched /\ i >= l1.m_capacity
                           THEN stray ELSE copied[i] ],
            !.writes = @ \cup { [ index |-> i, capacity |-> l1.m_capacity ] :
                                  i \in touched },
            !.appended[Len(l.appended)].value = @ \o characters ]

\* HTMLTokenAttributeList::endAttribute()
HTMLTokenAttributeList_endAttribute(l, stray) ==
    [ FinishOpenAttribute(l, stray) EXCEPT !.m_state = "Initial" ]

\* HTMLTokenAttributeList::size()
HTMLTokenAttributeList_size(l) == l.m_numberOfAttributes

\* for (auto& attribute : list): from begin(), index 0, while the iterator
\* differs from end(), index m_size; operator* reads the name and the value
\* behind their length slots and operator++ steps over both.  An iterator
\* that has stepped past m_size never compares equal to end().
RECURSIVE HTMLTokenAttributeList_iterate(_, _)
HTMLTokenAttributeList_iterate(l, indexOfNameSize) ==
    IF indexOfNameSize = l.m_size
    THEN [ attributes |-> << >>, reachedEnd |-> TRUE ]
    ELSE LET nameSize == l.m_data[indexOfNameSize]
             indexOfValueSize == indexOfNameSize + nameSize + 1
         IN  IF indexOfValueSize >= l.m_size
             THEN [ attributes |-> << >>, reachedEnd |-> FALSE ]
             ELSE LET valueSize == l.m_data[indexOfValueSize]
                      next == indexOfValueSize + valueSize + 1
                  IN  IF next > l.m_size
                      THEN [ attributes |-> << >>, reachedEnd |-> FALSE ]
                      ELSE LET rest == HTMLTokenAttributeList_iterate(l, next)
                               attribute ==
                                   [ name |-> [ k \in 1..nameSize |->
                                                  l.m_data[indexOfNameSize + k] ],
                                     value |-> [ k \in 1..valueSize |->
                                                   l.m_data[indexOfValueSize + k] ] ]
                           IN  [ rest EXCEPT !.attributes = << attribute >> \o @ ]

\* HTMLToken(): m_type { Type::Uninitialized }, no data, an empty attribute
\* list.  Of the members of HTMLToken the model keeps those that decide the
\* type, the data and the attributes.
HTMLToken_new ==
    [ m_type |-> "Uninitialized", m_data |-> << >>,
      m_attributes |-> HTMLTokenAttributeList_new ]

\* ------------------------------------------------------------ actions
StyleImages == Images \cup { "M", "F", "X" }

\* The state after construction.  preloadable: the CSS values whose resource
\* the loader may already hold, loaded for an earlier user, and which may
\* themselves already hold that handle from an earlier style resolution.  The
\* constructors of F and X have registered them on their inputs.
InitWith(preloadable) ==
    /\ css \in { f \in [ CssValues -> { "unset", "handle" } ] :
                   \A v \in CssValues \ preloadable : f[v] = "unset" }
    /\ handle \in { h \in [ CssValues -> { [ load |-> "Loaded", image |-> TRUE ],
                                            [ load |-> "NotRequested", image |-> FALSE ] } ] :
                      /\ \A v \in CssValues \ preloadable : h[v].load = "NotRequested"
                      /\ \A v \in CssValues : css[v] = "handle" => h[v].load = "Loaded" }
    /\ hClients = [ s \in Images |-> 0 ]
    /\ img = LET w0 == [ css |-> css ]
             IN  [ s \in Images |->
                     CASE s = "A" -> StyleCachedImage_create(w0, "vA", 1)
                       [] s = "B" -> StyleCachedImage_create(w0, "vB", 2)
                       [] s = "C" -> NoImage
                       [] s = "D" -> StyleCachedImage_addClient(
                                         StyleCachedImage_addClient(
                                             StyleCachedImage_create(w0, "vD", 1), "F"), "X")
                       [] s = "S" -> StyleCachedImage_create(w0, "vS", 1) ]
    /\ multi = NoPending
    /\ gen = [ g \in Generated |->
                 CASE g = "F" -> [ ready |-> FALSE, alive |-> TRUE,
                                   from |-> StyleFilterImage_inputImage, to |-> "-",
                                   percentage |-> 0, filterOperations |-> "none",
                                   images |-> NoCachedImages,
                                   clients |-> [ ZeroCounts EXCEPT !["X"] = 1 ] ]
                   [] g = "X" -> [ ready |-> FALSE, alive |-> TRUE,
                                   from |-> StyleCrossfadeImage_from,
                                   to |-> StyleCrossfadeImage_to, percentage |-> 5000,
                                   filterOperations |-> "none",
                                   images |-> NoCachedImages, clients |-> ZeroCounts ]
                   [] OTHER -> [ ready |-> FALSE, alive |-> FALSE,
                                 from |-> "-", to |-> "-", percentage |-> 0,
                                 filterOperations |-> "none",
                                 images |-> NoCachedImages, clients |-> ZeroCounts ] ]
    /\ canvas = NoCanvas
    /\ loadCount = [ x \in StyleImages |-> 0 ]
    /\ token = HTMLToken_new
    /\ ev = NoEvent

Commit(w, e) ==
    /\ css' = w.css
    /\ handle' = w.handle
    /\ hClients' = w.hClients
    /\ img' = w.img
    /\ multi' = w.multi
    /\ gen' = w.gen
    /\ canvas' = w.canvas
    /\ loadCount' = w.loadCount
    /\ token' = w.token
    /\ ev' = [ e EXCEPT !.calls = w.calls, !.delivered = w.delivered ]

\* The client registry a call on the StyleImage t lands on.
Registry(w, t) ==
    CASE t = "M" ->
           IF w.multi.state = "Pending" THEN w.multi ELSE w.img[w.multi.state]
      [] t \in Generated \cup { "K" } -> NoPending
      [] OTHER -> w.img[t]

\* isPending() of the StyleImage t.
IsPending(w, t) ==
    CASE t = "M" -> StyleMultiImage_isPending(w.multi)
      [] t = "F" -> StyleFilterImage_isPending(w)
      [] t = "X" -> StyleCrossfadeImage_isPending(w)
      [] t = "G" -> StyleFilterImage_isPending_of(w, t)
      [] t \in { "Y", "Z" } -> StyleCrossfadeImage_isPending_of(w, t)
      [] t = "K" -> StyleCanvasImage_isPending(w.canvas)
      [] OTHER -> StyleCachedImage_isPending(w.img[t])

\* errorOccurred() of the StyleImage t.
ErrorOccurred(w, t) ==
    CASE t = "M" -> StyleMultiImage_errorOccurred(w)
      [] t = "F" -> StyleFilterImage_errorOccurred(w)
      [] t = "X" -> StyleCrossfadeImage_errorOccurred(w)
      [] t = "K" -> StyleCanvasImage_errorOccurred(w.canvas)
      [] OTHER -> StyleCachedImage_errorOccurred(w, t)

\* StyleCachedImage::knownToBeOpaque; opaqueFrames holds the CSS values whose
\* decoded image answers currentFrameKnownToBeOpaque() with true.
StyleCachedImage_knownToBeOpaque(w, s, opaqueFrames) ==
    IF ~w.img[s].cachedImage THEN FALSE
    ELSE IF ~StyleCachedImage_image(w, s) THEN FALSE
    ELSE w.img[s].cssValue \in opaqueFrames

\* StyleMultiImage::knownToBeOpaque
StyleMultiImage_knownToBeOpaque(w, opaqueFrames) ==
    IF w.multi.state = "Pending" THEN FALSE
    ELSE StyleCachedImage_knownToBeOpaque(w, w.multi.state, opaqueFrames)

\* StyleFilterImage::knownToBeOpaque
StyleFilterImage_knownToBeOpaque(w, g, opaqueFrames) == FALSE

\* StyleCrossfadeImage::knownToBeOpaque of the cross-fade image g over
\* StyleCachedImages.
StyleCrossfadeImage_knownToBeOpaque(w, g, opaqueFrames) ==
    IF w.gen[g].from # "-"
       /\ ~StyleCachedImage_knownToBeOpaque(w, w.gen[g].from, opaqueFrames)
    THEN FALSE
    ELSE IF w.gen[g].to # "-"
            /\ ~StyleCachedImage_knownToBeOpaque(w, w.gen[g].to, opaqueFrames)
         THEN FALSE
         ELSE TRUE

\* StyleCanvasImage::knownToBeOpaqueForRenderer
StyleCanvasImage_knownToBeOpaque(c) == FALSE

\* knownToBeOpaque() of the StyleImage t.
KnownToBeOpaqueResult(w, t, opaqueFrames) ==
    CASE t = "M" -> StyleMultiImage_knownToBeOpaque(w, opaqueFrames)
      [] t = "G" -> StyleFilterImage_knownToBeOpaque(w, t, opaqueFrames)
      [] t = "Y" -> StyleCrossfadeImage_knownToBeOpaque(w, t, opaqueFrames)
      [] t = "K" -> StyleCanvasImage_knownToBeOpaque(w.canvas)
      [] OTHER -> StyleCachedImage_knownToBeOpaque(w, t, opaqueFrames)

\* The StyleCachedImages whose handle the StyleImage t draws from.
BackingImages(w, t) ==
    CASE t = "M" -> IF w.multi.state = "Pending" THEN {} ELSE { w.multi.state }
      [] t = "F" -> { StyleFilterImage_inputImage }
      [] t = "X" -> { StyleFilterImage_inputImage, StyleCrossfadeImage_to }
      [] OTHER -> { t }

\* The StyleImage t has been constructed and not destroyed.
Alive(t) ==
    CASE t = "M" -> TRUE
      [] t = "K" -> canvas.alive
      [] t \in Generated -> gen[t].alive
      [] OTHER -> img[t].exists

\* Nothing holds a reference to the StyleImage t: no StyleImage has it as an
\* input and no renderer is left among its clients.
Unreferenced(t) ==
    CASE t = "K" -> TRUE
      [] t = "X" -> TRUE
      [] t = "F" -> ~gen["X"].alive
      [] OTHER -> Keys(img[t].clients) = {}

\* A renderer talks to a StyleCachedImage of its own only once it is loaded
\* (ASSERT(!m_isPending) in addClient, removeClient and hasClient).
MayUse(t) == IF t = "M" THEN TRUE ELSE img[t].exists /\ ~img[t].isPending

\* The record of a handler: what ran, on what, for whom, and what a client
\* called back during it would see of the MultiImage.
EventOn(op, t, who) ==
    [ NoEvent EXCEPT !.op = op, !.target = t, !.who = who,
                     !.seenLoadCalled = multi.loadCalled,
                     !.seenSelected = StyleMultiImage_selectedImage(multi) ]

\* The same, with the registry of t as the handler found it.
EventFrom(op, t, who) ==
    [ EventOn(op, t, who) EXCEPT
        !.preClients = Registry(World, t).clients,
        !.preWaiting = Registry(World, t).waiting,
        !.preForce = Registry(World, t).force,
        !.preRequests = Registry(World, t).requests,
        !.prePending = IsPending(World, t) ]

AddClient(t, c) ==
    /\ MayUse(t)
    /\ Registrations(Registry(World, t).clients) < MaxCount
    /\ Commit(IF t = "M" THEN StyleMultiImage_addClient(World, c)
              ELSE [ World EXCEPT !.img[t] = StyleCachedImage_addClient(@, c) ],
              EventOn("addClient", t, "-"))

RemoveClient(t, c) ==
    /\ MayUse(t)
    /\ Commit(IF t = "M" THEN StyleMultiImage_removeClient(World, c)
              ELSE [ World EXCEPT !.img[t] = StyleCachedImage_removeClient(@, c) ],
              [ EventFrom("removeClient", t, c) EXCEPT
                  !.clientRemoved =
                      IF t = "M" THEN StyleMultiImage_clientRemovedTargets(World, c)
                      ELSE StyleCachedImage_clientRemovedTargets(img[t], c),
                  !.removedCalls =
                      IF t = "M" THEN StyleMultiImage_clientRemovedCalls(World, c)
                      ELSE StyleCachedImage_clientRemovedCalls(img[t], c) ])

AddClientWaitingForAsyncDecoding(t, c) ==
    /\ MayUse(t)
    /\ Commit(IF t = "M" THEN StyleMultiImage_addClientWaitingForAsyncDecoding(World, c)
              ELSE [ World EXCEPT !.img[t] =
                       StyleCachedImage_addClientWaitingForAsyncDecoding(@, c) ],
              EventOn("addClientWaitingForAsyncDecoding", t, "-"))

RemoveAllClientsWaitingForAsyncDecoding(t) ==
    /\ MayUse(t)
    /\ Commit(IF t = "M" THEN StyleMultiImage_removeAllClientsWaitingForAsyncDecoding(World)
              ELSE [ World EXCEPT !.img[t] =
                       StyleCachedImage_removeAllClientsWaitingForAsyncDecoding(@) ],
              EventOn("removeAllClientsWaitingForAsyncDecoding", t, "-"))

SetContainerContextForRenderer(t, r, size) ==
    /\ MayUse(t)
    /\ Commit(IF t = "M" THEN StyleMultiImage_setContainerContextForRenderer(World, r, size)
              ELSE StyleCachedImage_setContainerContextForRenderer(World, t, r, size),
              [ EventOn("setContainerContextForRenderer", t, r) EXCEPT !.result = size # 0 ])

\* Style resolution loads the StyleImages it finds pending, and only those.
EngineLoads(t) == IsPending(World, t)

\* load() of the StyleImage t; answer: what the loader gives a CSS value that
\* asks it.
Load(t) ==
    /\ Alive(t)
    /\ EngineLoads(t)
    /\ \E answer \in LoaderResults :
         CASE t = "M" ->
                \E candidate \in { "A", "B" }, scaleFactor \in 1..2,
                   order \in Perms(multi.waiting) :
                   Commit(StyleMultiImage_load(World,
                              [ image |-> candidate, scaleFactor |-> scaleFactor ],
                              order, answer),
                          EventFrom("load", t, "-"))
           [] t = "F" -> Commit(StyleFilterImage_load(World, answer), EventFrom("load", t, "-"))
           [] t = "X" -> Commit(StyleCrossfadeImage_load(World, answer), EventFrom("load", t, "-"))
           [] t = "G" -> Commit(StyleFilterImage_load_of(World, t, answer),
                                EventFrom("load", t, "-"))
           [] t \in { "Y", "Z" } -> Commit(StyleCrossfadeImage_load_of(World, t, answer),
                                EventFrom("load", t, "-"))
           [] OTHER -> Commit(StyleCachedImage_load(World, t, answer), EventFrom("load", t, "-"))

\* Style building constructs the generated image g over the given inputs.
Construct(g, from, to, percentage, filterOperations) ==
    /\ ~Alive(g)
    /\ Commit(IF g = "G" THEN StyleFilterImage_create(World, g, from, filterOperations)
              ELSE StyleCrossfadeImage_create(World, g, from, to, percentage),
              EventOn("construct", g, "-"))

\* An animation step blends the cross-fade image g with one of equal inputs:
\* the result, if any, is the cross-fade image z.
Blend(g, z, newPercentage) ==
    /\ Alive(g)
    /\ ~Alive(z)
    /\ Commit(StyleCrossfadeImage_blend(World, g, z, newPercentage),
              EventOn("blend", g, "-"))

\* The image-set image M is compared with itself.
Equals(t) ==
    /\ Alive(t)
    /\ Commit(World,
              [ EventFrom("equals", t, "-") EXCEPT
                  !.result = StyleMultiImage_equals(multi, multi) ])

\* The present inputs of the generated image g.
PresentInputs(g) == { gen[g].from, gen[g].to } \ { "-" }

\* A renderer starts to use the generated image g.
GeneratedAddClient(g, c) ==
    /\ Alive(g)
    /\ Registrations(gen[g].clients) < MaxCount
    /\ Commit(StyleGeneratedImage_addClient(World, g, c),
              [ EventOn("addClient", g, c) EXCEPT !.preClients = gen[g].clients ])

\* A renderer stops using the generated image g.
GeneratedRemoveClient(g, c) ==
    /\ Alive(g)
    /\ gen[g].clients[c] > 0
    /\ Commit(StyleGeneratedImage_removeClient(World, g, c),
              [ EventOn("removeClient", g, c) EXCEPT !.preClients = gen[g].clients ])

\* An input of the generated image g asks it whether animation is allowed;
\* yes: the clients of g that allow animation.
StyleImageAnimationAllowed(g, yes) ==
    /\ Alive(g)
    /\ PresentInputs(g) # {}
    /\ yes \subseteq Keys(gen[g].clients)
    /\ Commit(World,
              [ EventOn("styleImageAnimationAllowed", g, "-") EXCEPT
                  !.preClients = gen[g].clients,
                  !.answers = yes,
                  !.result = IF g = "G"
                             THEN StyleFilterImage_styleImageAnimationAllowed(
                                      Keys(gen[g].clients), yes)
                             ELSE StyleCrossfadeImage_styleImageAnimationAllowed(
                                      Keys(gen[g].clients), yes) ])

\* Paint asks the StyleImage t whether it is known to be opaque.
KnownToBeOpaque(t, opaqueFrames) ==
    /\ Alive(t)
    /\ Commit(World,
              [ EventOn("knownToBeOpaque", t, "-") EXCEPT
                  !.opaqueFrames = opaqueFrames,
                  !.opaque = KnownToBeOpaqueResult(World, t, opaqueFrames) ])

\* Layout asks the StyleCachedImage s for its size for a renderer.
ImageSizeForRenderer(s, svgResource, containerSize, image, multiplier) ==
    /\ Alive(s)
    /\ Commit(World,
              [ EventOn("imageSizeForRenderer", s, "-") EXCEPT
                  !.imageSize = image.size,
                  !.multiplier = multiplier,
                  !.svgResource = svgResource,
                  !.sizeResult = StyleCachedImage_imageSizeForRenderer(
                                     World, s, svgResource, containerSize, image,
                                     multiplier) ])

\* The generated image g is asked for the image it keeps for a size.
CachedImageForSize(g, size) ==
    /\ Alive(g)
    /\ Commit(World,
              [ EventOn("cachedImageForSize", g, "-") EXCEPT
                  !.size = size,
                  !.image = StyleGeneratedImage_cachedImageForSize(World, g, size) ])

\* The generated image g keeps the image it made for a size.
SaveCachedImageForSize(g, size, image) ==
    /\ Alive(g)
    /\ Commit(StyleGeneratedImage_saveCachedImageForSize(World, g, size, image),
              [ EventOn("saveCachedImageForSize", g, "-") EXCEPT
                  !.size = size, !.image = image ])

\* The generated image g drops the image it keeps for a size; the event keeps
\* the image that was there.
EvictCachedGeneratedImage(g, size) ==
    /\ Alive(g)
    /\ Commit(StyleGeneratedImage_evictCachedGeneratedImage(World, g, size),
              [ EventOn("evictCachedGeneratedImage", g, "-") EXCEPT
                  !.size = size,
                  !.image = StyleGeneratedImage_cachedImageForSize(World, g, size) ])

\* How far the declared resolution of a candidate is from the device scale.
ResolutionDistance(resolution, deviceScale) ==
    IF resolution >= deviceScale THEN resolution - deviceScale
    ELSE deviceScale - resolution

\* The candidates among which every other is at least as far from the scale.
ClosestAmong(candidates, eligible, deviceScale) ==
    { i \in eligible :
        \A j \in eligible :
            ResolutionDistance(candidates[i], deviceScale)
                <= ResolutionDistance(candidates[j], deviceScale) }

\* The first declared of a non-empty set of candidates.
FirstDeclared(indices) == CHOOSE i \in indices : \A j \in indices : i <= j

\* Variant: the nearest resolution is taken, above the device scale or not.
StyleMultiImage_selectBestFitImage_nearest(candidates, deviceScale) ==
    FirstDeclared(ClosestAmong(candidates, DOMAIN candidates, deviceScale))

\* selectBestFitImage for image-set(): candidates holds the declared
\* resolutions in declared order; resolutions and the device scale are in
\* halves.  The answer is the position of the candidate closest to the device
\* scale among those that do not exceed it, or among all when every candidate
\* exceeds it; of equally close candidates the first declared one.
StyleMultiImage_selectBestFitImage(candidates, deviceScale) ==
    LET notExceeding == { i \in DOMAIN candidates : candidates[i] <= deviceScale }
        eligible == IF notExceeding # {} THEN notExceeding ELSE DOMAIN candidates
    IN  FirstDeclared(ClosestAmong(candidates, eligible, deviceScale))

\* StyleMultiImage::load asks for the best fit among the candidates of an
\* image-set() on a document with the given device scale.
SelectBestFitImage(candidates, deviceScale) ==
    Commit(World,
           [ EventOn("selectBestFitImage", "M", "-") EXCEPT
               !.candidates = candidates,
               !.deviceScale = deviceScale,
               !.selected = StyleMultiImage_selectBestFitImage(candidates, deviceScale) ])

\* Layout asks the cross-fade image g for its natural dimensions in a context.
NaturalDimensionsForContext(g, context) ==
    /\ Alive(g)
    /\ Commit(World,
              [ EventOn("naturalDimensionsForContext", g, "-") EXCEPT
                  !.context = context,
                  !.dims = StyleCrossfadeImage_naturalDimensionsForContext(World, g, context) ])

\* The last reference to the StyleImage t is dropped: its destructor runs.
Destroy(t) ==
    /\ Alive(t)
    /\ Unreferenced(t)
    /\ Commit(CASE t = "K" -> [ World EXCEPT !.canvas = StyleCanvasImage_destroy(@) ]
                [] t = "F" -> StyleFilterImage_destroy(World)
                [] t = "X" -> StyleCrossfadeImage_destroy(World)
                [] OTHER -> StyleCachedImage_destroy(World, t),
              [ EventFrom("destroy", t, "-") EXCEPT !.preElement = canvas.element ])

\* What imageForRenderer(renderer, size) of the StyleImage t answers.
ImageForRendererResult(w, t, size) ==
    CASE t = "M" -> StyleMultiImage_imageForRenderer(w, size)
      [] t = "F" -> StyleFilterImage_imageForRenderer(w, size)
      [] t = "X" -> StyleCrossfadeImage_imageForRenderer(w, size)
      [] t = "K" -> IF StyleCanvasImage_imageForRenderer(w.canvas).image = 0
                    THEN "nullptr" ELSE "image"
      [] OTHER -> StyleCachedImage_imageForRenderer(w, t)

\* A renderer asks the StyleImage t for its image at a size.
ImageForRenderer(t, size) ==
    /\ Alive(t)
    /\ Commit(IF t = "K"
              THEN [ World EXCEPT !.canvas = StyleCanvasImage_imageForRenderer(@).canvas ]
              ELSE World,
              [ EventOn("imageForRenderer", t, "-") EXCEPT
                  !.preElement = canvas.element,
                  !.image = IF t = "K" THEN StyleCanvasImage_imageForRenderer(canvas).image
                            ELSE 0,
                  !.size = size,
                  !.answer = ImageForRendererResult(World, t, size) ])

\* The document comes to hold a canvas element under the name of K.
CanvasElementRegistered ==
    /\ canvas.named = 0
    /\ canvas.made < MaxElements
    /\ Commit([ World EXCEPT !.canvas.named = canvas.made + 1,
                             !.canvas.made = @ + 1 ],
              EventOn("canvasElementRegistered", "K", "-"))

\* The canvas element of that name is destroyed: it tells its observers
\* (canvasDestroyed) and its observer list goes away with it.
CanvasElementDestroyed ==
    /\ canvas.named # 0
    /\ LET c1 == IF canvas.named \in canvas.observed
                 THEN StyleCanvasImage_canvasDestroyed(canvas) ELSE canvas
       IN  Commit([ World EXCEPT !.canvas = [ c1 EXCEPT !.named = 0,
                                                       !.observed = @ \ { canvas.named } ] ],
                  [ EventOn("canvasElementDestroyed", "K", "-") EXCEPT
                      !.preElement = canvas.element ])

\* ----------------------------------------- CachedImage notifying its clients
\* The StyleCachedImage s is a client of its CachedImage.
Registered(s) == img[s].exists /\ img[s].cachedImage /\ hClients[s] > 0

HandleOf(s) == handle[img[s].cssValue]

\* What the callbacks of one fan-out leave behind: the client that unregisters
\* itself during its callback has called removeClient.
RECURSIVE ApplyRemovals(_, _)
ApplyRemovals(i, removing) ==
    IF removing = {} THEN i
    ELSE LET c == CHOOSE x \in removing : TRUE
         IN  ApplyRemovals(StyleCachedImage_removeClient(i, c), removing \ {c})

RemovalTargets(i, removing) ==
    UNION { StyleCachedImage_clientRemovedTargets(i, c) : c \in removing }

\* The decoded image object comes into existence: imageCreated.
ImageCreated(s) ==
    /\ Registered(s)
    /\ HandleOf(s).load = "Pending"
    /\ ~HandleOf(s).image
    /\ \E usesContainerSize \in BOOLEAN :
         Commit(StyleCachedImage_imageCreated(
                    [ World EXCEPT !.handle[img[s].cssValue].image = TRUE ],
                    s, usesContainerSize),
                [ EventFrom("imageCreated", s, "-") EXCEPT !.result = usesContainerSize ])

\* StyleFilterImage::styleImageFinishedLoad of the filter image g: the clients
\* of g the call is passed on to.
StyleFilterImage_styleImageFinishedLoad(w, g) == Keys(w.gen[g].clients)

\* StyleCrossfadeImage::styleImageFinishedLoad of the cross-fade image g: the
\* body sends nothing.
StyleCrossfadeImage_styleImageFinishedLoad(w, g) == {}

\* StyleCachedImage::notifyFinished: the styleImageFinishedLoad calls it leads
\* to, as pairs of the StyleImage named in the call and the client called:
\* its own to each of its clients, and those the generated images among its
\* clients make in turn.
StyleCachedImage_notifyFinished(w, s) ==
    LET called == Keys(w.img[s].clients)
    IN  { << s, c >> : c \in called }
        \cup UNION { { << g, c >> : c \in StyleFilterImage_styleImageFinishedLoad(w, g) } :
                        g \in called \cap { "F", "G" } }
        \cup UNION { { << g, c >> : c \in StyleCrossfadeImage_styleImageFinishedLoad(w, g) } :
                        g \in called \cap { "X", "Y", "Z" } }

\* The external document a reference filter of the filter image g names ends
\* its load; the filter image is not told.
ExternalDocumentLoaded(g) ==
    /\ Alive(g)
    /\ gen[g].filterOperations = "Pending"
    /\ Commit([ World EXCEPT !.gen[g].filterOperations = "Loaded" ],
              EventOn("externalDocumentLoaded", g, "-"))

\* The load ends, in success or in a decode error: notifyFinished.
NotifyFinished(s) ==
    /\ Registered(s)
    /\ HandleOf(s).load = "Pending"
    /\ \E outcome \in { "Loaded", "DecodeError" } :
         /\ outcome = "Loaded" => HandleOf(s).image
         /\ Commit([ World EXCEPT !.handle[img[s].cssValue].load = outcome ],
                   [ EventFrom("notifyFinished", s, "-") EXCEPT
                       !.notified = Keys(img[s].clients),
                       !.finishedLoad = StyleCachedImage_notifyFinished(World, s),
                       !.result = outcome = "Loaded" ])

\* StyleCachedImage::imageChanged
ImageChanged(s) ==
    /\ Registered(s)
    /\ HandleOf(s).image
    /\ \E o \in FanOutOutcomes(img[s].clients, Keys(img[s].clients)) :
         Commit([ World EXCEPT !.img[s] = ApplyRemovals(@, o.removing) ],
                [ EventFrom("imageChanged", s, "-") EXCEPT
                    !.notified = o.notified, !.removing = o.removing,
                    !.clientRemoved = RemovalTargets(img[s], o.removing) ])

\* Variant: only the waiting set is cleared, the force flag stays.
StyleCachedImage_imageFrameAvailable_keepsForce(i, removing, partial) ==
    LET i1 == ApplyRemovals(i, removing)
    IN  IF ~partial THEN [ i1 EXCEPT !.waiting = {} ] ELSE i1

\* What imageFrameAvailable leaves of the image once its callbacks have run.
StyleCachedImage_imageFrameAvailable(i, removing, partial) ==
    LET i1 == ApplyRemovals(i, removing)
    IN  IF ~partial THEN [ i1 EXCEPT !.waiting = {}, !.force = FALSE ] ELSE i1

\* Variant: the answer is visible only when every client called back says so.
StyleCachedImage_imageFrameAvailable_visibleState_ofAll(called, visible) ==
    called # {} /\ called \subseteq visible

\* The value imageFrameAvailable returns: visibleState starts as No and becomes
\* Yes with each client called back that answers Yes; called: the clients
\* still to call back, visible: the clients that answer Yes.
RECURSIVE StyleCachedImage_imageFrameAvailable_visibleState(_, _)
StyleCachedImage_imageFrameAvailable_visibleState(called, visible) ==
    IF called = {} THEN FALSE
    ELSE LET c == CHOOSE x \in called : TRUE
             rest == StyleCachedImage_imageFrameAvailable_visibleState(called \ {c}, visible)
         IN  IF c \in visible THEN TRUE ELSE rest

\* StyleCachedImage::imageFrameAvailable; partial: decodingStatus is Partial,
\* visible: the clients whose callback answers VisibleInViewportState::Yes.
ImageFrameAvailable(s) ==
    /\ Registered(s)
    /\ HandleOf(s).image
    /\ \E animating \in BOOLEAN, partial \in BOOLEAN :
       \E o \in FanOutOutcomes(img[s].clients,
                               StyleCachedImage_frameAvailableTargets(img[s], animating)) :
       \E visible \in SUBSET o.notified :
         Commit([ World EXCEPT !.img[s] =
                    StyleCachedImage_imageFrameAvailable(@, o.removing, partial) ],
                [ EventFrom("imageFrameAvailable", s, "-") EXCEPT
                    !.animating = animating, !.partial = partial,
                    !.notified = o.notified, !.removing = o.removing,
                    !.clientRemoved = RemovalTargets(img[s], o.removing),
                    !.answers = visible,
                    !.result = StyleCachedImage_imageFrameAvailable_visibleState(
                                   o.notified, visible) ])

\* StyleCachedImage::canDestroyDecodedData; yes: the clients that agree.
CanDestroyDecodedData(s) ==
    /\ Registered(s)
    /\ \E yes \in SUBSET Keys(img[s].clients) :
         Commit(World,
                [ EventFrom("canDestroyDecodedData", s, "-") EXCEPT
                    !.answers = yes,
                    !.result = StyleCachedImage_canDestroyDecodedData(
                                   Keys(img[s].clients), yes) ])

\* StyleCachedImage::allowsAnimation; yes: the clients that allow animation.
AllowsAnimation(s) ==
    /\ Registered(s)
    /\ \E yes \in SUBSET Keys(img[s].clients) :
         Commit(World,
                [ EventFrom("allowsAnimation", s, "-") EXCEPT
                    !.answers = yes,
                    !.result = StyleCachedImage_allowsAnimation(
                                   Keys(img[s].clients), yes) ])

\* ------------------------------------------------------ specifications
\* Renderers using the image-set image M, whose candidates are A and B.
Init == InitWith({ "vA" })

Next ==
    \/ \E c \in Renderers : AddClient("M", c)
    \/ \E c \in Renderers : RemoveClient("M", c)
    \/ \E c \in Renderers : AddClientWaitingForAsyncDecoding("M", c)
    \/ RemoveAllClientsWaitingForAsyncDecoding("M")
    \/ \E r \in Renderers, size \in 0..1 : SetContainerContextForRenderer("M", r, size)
    \/ Load("M")
    \/ \E s \in { "A", "B", "C" } : ImageChanged(s)

Spec == Init /\ [][Next]_vars

\* Renderers using the StyleCachedImage S directly, and the CachedImage of S
\* calling S back.
InitCached == InitWith({ "vS" })

NextCached ==
    \/ Load("S")
    \/ \E c \in Renderers : AddClient("S", c)
    \/ \E c \in Renderers : RemoveClient("S", c)
    \/ \E c \in Renderers : AddClientWaitingForAsyncDecoding("S", c)
    \/ RemoveAllClientsWaitingForAsyncDecoding("S")
    \/ \E r \in Renderers, size \in 0..1 : SetContainerContextForRenderer("S", r, size)
    \/ ImageCreated("S")
    \/ NotifyFinished("S")
    \/ ImageChanged("S")
    \/ ImageFrameAvailable("S")
    \/ CanDestroyDecodedData("S")
    \/ AllowsAnimation("S")

SpecCached == InitCached /\ [][NextCached]_vars

\* Style resolution loading every pending StyleImage it comes across: the
\* filter image F and the cross-fade image X over the shared input D, the
\* image-set image M and its candidates.
InitLoad == InitWith({ "vA", "vD" })

NextLoad ==
    \/ \E t \in { "A", "B", "D", "F", "X", "M" } : Load(t)
    \/ \E c \in Renderers : AddClient("D", c)
    \/ \E c \in Renderers : RemoveClient("D", c)
    \/ ImageCreated("D")
    \/ NotifyFinished("D")

SpecLoad == InitLoad /\ [][NextLoad]_vars

\* Painting: renderers asking the filter image, the cross-fade image and the
\* image-set image for their image while style resolution loads them.
InitPaint == InitWith({ "vA", "vD" })

NextPaint ==
    \/ \E t \in { "A", "B", "D", "F", "X", "M" } : Load(t)
    \/ ImageCreated("D")
    \/ NotifyFinished("D")
    \/ \E t \in { "F", "X", "M" }, size \in 0..1 : ImageForRenderer(t, size)

SpecPaint == InitPaint /\ [][NextPaint]_vars

\* The StyleImages going away: the cross-fade image X, the filter image F and
\* their input D, and the canvas image K with the canvas elements of its name.
InitLifetime == InitWith({ "vD" })

NextLifetime ==
    \/ \E t \in { "D", "F", "X" } : Load(t)
    \/ \E t \in { "D", "F", "X", "K" } : Destroy(t)
    \/ \E c \in Renderers : AddClient("D", c)
    \/ \E c \in Renderers : RemoveClient("D", c)
    \/ NotifyFinished("D")
    \/ \E size \in 0..1 : ImageForRenderer("K", size)
    \/ CanvasElementRegistered
    \/ CanvasElementDestroyed

SpecLifetime == InitLifetime /\ [][NextLifetime]_vars

\* Generated images built over every combination of present and absent
\* inputs: the filter image G over A or nothing, the cross-fade image Y over
\* A, B, one of them or nothing.
InitInputs == InitWith({ "vA" })

NextInputs ==
    \/ \E input \in { "-", "A" } : Construct("G", input, "-", 0, "none")
    \/ \E from \in { "-", "A" }, to \in { "-", "B" } : Construct("Y", from, to, 5000, "none")
    \/ \E t \in { "A", "B", "G", "Y" } : Load(t)

SpecInputs == InitInputs /\ [][NextInputs]_vars

\* The percentages cross-fade images are built with, in ten-thousandths.
Percentages == { 0, 1, 2500, 5000, 7500, 9999, 10000 }

\* The concrete object sizes the negotiation yields for an input.
ConcreteObjectSizes ==
    [ width : { LayoutUnit(50), LayoutUnit(100), LayoutUnit(100) + 1, LayoutUnit(200) },
      height : { LayoutUnit(50), LayoutUnit(100) } ]

\* The cross-fade image Y built with every percentage over present and absent
\* inputs and asked for its natural dimensions in every sizing context.
InitCrossfade == InitWith({ "vA" })

NextCrossfade ==
    \/ \E from \in { "-", "A" }, to \in { "-", "B" }, percentage \in Percentages :
           Construct("Y", from, to, percentage, "none")
    \/ \E context \in [ from : ConcreteObjectSizes, to : ConcreteObjectSizes ] :
           NaturalDimensionsForContext("Y", context)

SpecCrossfade == InitCrossfade /\ [][NextCrossfade]_vars

\* The declared resolutions 1x, 2x, 3x and the device scales 1.0 to 3.0, in
\* halves.
Resolutions == { 2, 4, 6 }

DeviceScales == 2..6

\* The candidate lists of an image-set(): up to MaxCandidates resolutions in
\* any declared order.
CandidateLists ==
    UNION { [ 1..n -> Resolutions ] : n \in 1..MaxCandidates }

\* Best-fit selection over every candidate list and device scale.
InitBestFit == InitWith({ "vA" })

NextBestFit ==
    \E candidates \in CandidateLists, deviceScale \in DeviceScales :
        SelectBestFitImage(candidates, deviceScale)

SpecBestFit == InitBestFit /\ [][NextBestFit]_vars

\* The size-keyed caches of the filter image F and the cross-fade image X.
InitCache == InitWith({ "vD" })

NextCache ==
    \E g \in { "F", "X" }, size \in CachedSizes :
        \/ CachedImageForSize(g, size)
        \/ \E image \in GeneratedImages : SaveCachedImageForSize(g, size, image)
        \/ EvictCachedGeneratedImage(g, size)

SpecCache == InitCache /\ [][NextCache]_vars

\* The zoom multipliers 1/128, 1/4, 1/2, 1 and 2, in 128ths.
Multipliers == { 1, 32, 64, 128, 256 }

\* The decoded images: sizes of 0, 1 and 10 pixels per axis, each axis
\* relative or not.
DecodedImages ==
    [ size : [ width : { 0, LayoutUnit(1), LayoutUnit(10) },
               height : { 0, LayoutUnit(1), LayoutUnit(10) } ],
      hasRelativeWidth : BOOLEAN, hasRelativeHeight : BOOLEAN ]

\* The sizes of A (scale factor 1) and B (scale factor 2), loaded or not, for
\* every decoded image and multiplier.
InitSize == InitWith({ "vA", "vB" })

NextSize ==
    \E s \in { "A", "B" }, svgResource \in BOOLEAN, image \in DecodedImages,
       multiplier \in Multipliers :
        ImageSizeForRenderer(s, svgResource,
                             [ width |-> LayoutUnit(10), height |-> LayoutUnit(10) ],
                             image, multiplier)

SpecSize == InitSize /\ [][NextSize]_vars

\* Opacity queries on the cached images A and B, the image-set M, the filter
\* image G, the cross-fade image Y and the canvas image K, before and after
\* their loads.
InitOpaque == InitWith({ "vA", "vB" })

NextOpaque ==
    \/ \E input \in { "-", "A" } : Construct("G", input, "-", 0, "none")
    \/ \E from \in { "-", "A" }, to \in { "-", "B" } : Construct("Y", from, to, 5000, "none")
    \/ \E t \in { "A", "B", "G", "Y", "M" } : Load(t)
    \/ \E t \in { "A", "B", "G", "Y", "M", "K" }, opaqueFrames \in SUBSET { "vA", "vB" } :
           KnownToBeOpaque(t, opaqueFrames)

SpecOpaque == InitOpaque /\ [][NextOpaque]_vars

\* Renderers using the filter image G and the cross-fade image Y, whose inputs
\* ask them whether animation is allowed.
InitAnimation == InitWith({ "vA" })

NextAnimation ==
    \/ Construct("G", "A", "-", 0, "none")
    \/ \E from \in { "-", "A" } : Construct("Y", from, "B", 5000, "none")
    \/ \E g \in { "G", "Y" } : Load(g)
    \/ \E g \in { "G", "Y" }, c \in Renderers : GeneratedAddClient(g, c)
    \/ \E g \in { "G", "Y" }, c \in Renderers : GeneratedRemoveClient(g, c)
    \/ \E g \in { "G", "Y" }, yes \in SUBSET Renderers : StyleImageAnimationAllowed(g, yes)

SpecAnimation == InitAnimation /\ [][NextAnimation]_vars

\* Renderers using the filter image G, whose filter list may name an external
\* document, and the cross-fade image Y, while their inputs A and B load.
InitFinished == InitWith({ "vA" })

NextFinished ==
    \/ \E filterOperations \in { "none", "NotRequested" } :
           Construct("G", "A", "-", 0, filterOperations)
    \/ \E from \in { "-", "A" } : Construct("Y", from, "B", 5000, "none")
    \/ \E g \in { "G", "Y" } : Load(g)
    \/ \E g \in { "G", "Y" }, c \in Renderers : GeneratedAddClient(g, c)
    \/ \E s \in { "A", "B" } : ImageCreated(s)
    \/ \E s \in { "A", "B" } : NotifyFinished(s)
    \/ ExternalDocumentLoaded("G")

SpecFinished == InitFinished /\ [][NextFinished]_vars

\* The same with the loader at work: a load that has started ends.
SpecFinishedFair ==
    /\ SpecFinished
    /\ \A s \in { "A", "B" } : WF_vars(NotifyFinished(s))
    /\ WF_vars(ExternalDocumentLoaded("G"))

\* The CachedImages of the inputs calling back while the filter image G over S
\* and the cross-fade image Y over A and B are loaded and Y is blended.
InitReady == InitWith({ "vA" })

NextReady ==
    \/ Construct("G", "S", "-", 0, "none")
    \/ Construct("Y", "A", "B", 5000, "none")
    \/ \E g \in { "G", "Y", "Z" } : Load(g)
    \/ Blend("Y", "Z", 2500)
    \/ \E s \in { "S", "A", "B" } : ImageCreated(s)
    \/ \E s \in { "S", "A", "B" } : NotifyFinished(s)
    \/ \E s \in { "S", "A", "B" } : ImageChanged(s)
    \/ \E s \in { "S", "A", "B" } : CanDestroyDecodedData(s)
    \/ \E s \in { "S", "A", "B" } : AllowsAnimation(s)

SpecReady == InitReady /\ [][NextReady]_vars

\* Style diffing comparing the image-set image M with itself while renderers
\* use it and style resolution loads it.
InitEquals == InitWith({ "vA" })

NextEquals ==
    \/ \E c \in Renderers : AddClient("M", c)
    \/ \E c \in Renderers : RemoveClient("M", c)
    \/ Load("M")
    \/ Equals("M")

SpecEquals == InitEquals /\ [][NextEquals]_vars

\* ------------------------------------------------------- the tokenizer
\* What a stray write can leave in the slot behind the buffer.
StrayValues == 0..MaxCharacter

\* The slots the switch of beginAttribute() and endAttribute() takes.
OpenSlots(l) ==
    CASE l.m_state = "Initial" -> 0
      [] l.m_state = "Name" -> 2
      [] l.m_state = "Value" -> 1

\* The model follows the attribute buffer up to MaxBufferIndex and m_data up
\* to MaxData characters.
Room(slots) == World.token.m_attributes.m_size + slots <= MaxBufferIndex

DataRoom(characters) == Len(World.token.m_data) + characters <= MaxData

TokenTypes == { "Uninitialized", "DOCTYPE", "StartTag", "EndTag", "Comment",
                "Character", "EndOfFile" }

TagTypes == { "StartTag", "EndTag" }

TokenEvent(op, t) == Commit([ World EXCEPT !.token = t ], EventOn(op, "T", "-"))

\* HTMLToken::clear(): the type and the data; m_attributes is left as it is.
Clear ==
    /\ token.m_type \in TokenTypes
    /\ TokenEvent("clear", [ World.token EXCEPT !.m_type = "Uninitialized",
                                                !.m_data = << >> ])

\* HTMLToken::makeEndOfFile(), ASSERT(m_type == Type::Uninitialized).
MakeEndOfFile ==
    /\ token.m_type = "Uninitialized"
    /\ TokenEvent("makeEndOfFile", [ World.token EXCEPT !.m_type = "EndOfFile" ])

\* HTMLToken::beginDOCTYPE(UChar)
BeginDOCTYPE(character) ==
    /\ token.m_type = "Uninitialized"
    /\ DataRoom(1)
    /\ TokenEvent("beginDOCTYPE", [ World.token EXCEPT !.m_type = "DOCTYPE",
                                                       !.m_data = Append(@, character) ])

\* HTMLToken::beginStartTag(LChar)
BeginStartTag(character) ==
    /\ token.m_type = "Uninitialized"
    /\ DataRoom(1)
    /\ TokenEvent("beginStartTag",
                  [ World.token EXCEPT !.m_type = "StartTag",
                                       !.m_attributes = HTMLTokenAttributeList_clear(@),
                                       !.m_data = Append(@, character) ])

\* HTMLToken::beginEndTag(LChar)
BeginEndTag(character) ==
    /\ token.m_type = "Uninitialized"
    /\ DataRoom(1)
    /\ TokenEvent("beginEndTag",
                  [ World.token EXCEPT !.m_type = "EndTag",
                                       !.m_attributes = HTMLTokenAttributeList_clear(@),
                                       !.m_data = Append(@, character) ])

\* HTMLToken::beginComment()
BeginComment ==
    /\ token.m_type = "Uninitialized"
    /\ TokenEvent("beginComment", [ World.token EXCEPT !.m_type = "Comment" ])

\* HTMLToken::appendToName(UChar)
AppendToName(character) ==
    /\ token.m_type \in TagTypes \cup { "DOCTYPE" }
    /\ DataRoom(1)
    /\ TokenEvent("appendToName", [ World.token EXCEPT !.m_data = Append(@, character) ])

\* HTMLToken::appendToComment(UChar)
AppendToComment(character) ==
    /\ token.m_type = "Comment"
    /\ DataRoom(1)
    /\ TokenEvent("appendToComment", [ World.token EXCEPT !.m_data = Append(@, character) ])

\* HTMLToken::appendToCharacter(UChar), ASSERT(m_type == Type::Uninitialized
\* || m_type == Type::Character).
AppendToCharacter(character) ==
    /\ token.m_type \in { "Uninitialized", "Character" }
    /\ DataRoom(1)
    /\ TokenEvent("appendToCharacter",
                  [ World.token EXCEPT !.m_type = "Character",
                                       !.m_data = Append(@, character) ])

\* HTMLToken::appendToCharacter(Span<const CharacterType>), which asserts
\* nothing about the type.
AppendToCharacterSpan(characters) ==
    /\ DataRoom(Len(characters))
    /\ TokenEvent("appendToCharacter",
                  [ World.token EXCEPT !.m_type = "Character",
                                       !.m_data = @ \o characters ])

\* HTMLToken::beginAttribute()
BeginAttribute ==
    /\ token.m_type \in TagTypes
    /\ Room(OpenSlots(token.m_attributes))
    /\ \E stray \in StrayValues :
         TokenEvent("beginAttribute",
                    [ World.token EXCEPT !.m_attributes =
                        HTMLTokenAttributeList_beginAttribute(@, stray) ])

\* HTMLToken::appendToAttributeName(UChar)
AppendToAttributeName(character) ==
    /\ token.m_type \in TagTypes
    /\ token.m_attributes.m_state = "Name"
    /\ Room(1)
    /\ \E stray \in StrayValues :
         TokenEvent("appendToAttributeName",
                    [ World.token EXCEPT !.m_attributes =
                        HTMLTokenAttributeList_appendToAttributeName(@, character, stray) ])

\* HTMLToken::appendToAttributeValue(UChar)
AppendToAttributeValue(character) ==
    /\ token.m_type \in TagTypes
    /\ token.m_attributes.m_state # "Initial"
    /\ Room(IF token.m_attributes.m_state = "Name" THEN 2 ELSE 1)
    /\ \E stray \in StrayValues :
         TokenEvent("appendToAttributeValue",
                    [ World.token EXCEPT !.m_attributes =
                        HTMLTokenAttributeList_appendToAttributeValue(@, character, stray) ])

\* HTMLToken::appendToAttributeValue(Span<const CharacterType>)
AppendToAttributeValueSpan(characters) ==
    /\ token.m_type \in TagTypes
    /\ token.m_attributes.m_state # "Initial"
    /\ Room((IF token.m_attributes.m_state = "Name" THEN 1 ELSE 0) + Len(characters))
    /\ \E stray \in StrayValues :
         TokenEvent("appendToAttributeValue",
                    [ World.token EXCEPT !.m_attributes =
                        HTMLTokenAttributeList_appendToAttributeValueSpan(@, characters, stray) ])

\* HTMLToken::endAttribute(), which asserts nothing about the type.
EndAttribute ==
    /\ Room(OpenSlots(token.m_attributes))
    /\ \E stray \in StrayValues :
         TokenEvent("endAttribute",
                    [ World.token EXCEPT !.m_attributes =
                        HTMLTokenAttributeList_endAttribute(@, stray) ])

\* The tokenizer filling and clearing one token.
InitToken == InitWith({ "vA" })

NextToken ==
    \/ Clear
    \/ MakeEndOfFile
    \/ \E character \in Characters : BeginDOCTYPE(character)
    \/ \E character \in Characters : BeginStartTag(character)
    \/ \E character \in Characters : BeginEndTag(character)
    \/ BeginComment
    \/ \E character \in Characters : AppendToName(character)
    \/ \E character \in Characters : AppendToComment(character)
    \/ \E character \in Characters : AppendToCharacter(character)
    \/ \E characters \in Spans : AppendToCharacterSpan(characters)
    \/ BeginAttribute
    \/ \E character \in Characters : AppendToAttributeName(character)
    \/ \E character \in Characters : AppendToAttributeValue(character)
    \/ \E characters \in Spans : AppendToAttributeValueSpan(characters)
    \/ EndAttribute

SpecToken == InitToken /\ [][NextToken]_vars

C2_LoadAtMostOnce == \A t \in StyleImages : loadCount[t] <= 1

\* C2, reached: the load of the cross-fade image was forwarded to the filter
\* image and on to the input they share.
C2_ForwardedLoad ==
    /\ ev.op = "load" /\ ev.target = "X"
    /\ loadCount["X"] = 1 /\ loadCount["F"] = 1 /\ loadCount["D"] = 1

\* C3 as stated: one imageChanged calls back every observer that was registered
\* when it began, also when an observer unregisters itself in its callback.
C3_EveryObserverNotified ==
    ev.op = "imageChanged" => ev.notified = Keys(ev.preClients)

\* C4: after load() resolved the image-set image, the selected image holds
\* exactly the registrations that were queued (same observers, same counts) and
\* has received exactly one container-context call per queued request.
C4_QueueTransferredExactly ==
    ev.op = "load" /\ ev.target = "M" =>
        /\ multi.state \in Images
        /\ img[multi.state].clients = ev.preClients
        /\ ev.calls = [ o \in Observers |-> IF o \in ev.preRequests THEN 1 ELSE 0 ]

\* C4, reached: three registrations and one request were queued and have been
\* transferred.
C4_ThreeClientsOneRequest ==
    /\ ev.op = "load" /\ ev.target = "M"
    /\ Registrations(ev.preClients) = 3
    /\ \E c \in Renderers : ev.preClients[c] = 2
    /\ Cardinality(ev.preRequests) = 1
    /\ multi.state \in Images

C6_CanDestroyIsConjunction ==
    ev.op = "canDestroyDecodedData" =>
        (ev.result <=> \A c \in Keys(ev.preClients) : c \in ev.answers)

\* C6, reached: two observers, one of which refuses.
C6_OneObserverRefuses ==
    /\ ev.op = "canDestroyDecodedData"
    /\ Cardinality(Keys(ev.preClients)) = 2
    /\ Cardinality(ev.answers) = 1
    /\ ~ev.result

\* C7: allowsAnimation is the disjunction of the observers' answers, false when
\* there is no observer.
C7_AllowsAnimationIsDisjunction ==
    ev.op = "allowsAnimation" =>
        (ev.result <=> \E c \in Keys(ev.preClients) : c \in ev.answers)

\* C7, reached: the image is asked while it has no observer.
C7_NoObserver ==
    /\ ev.op = "allowsAnimation"
    /\ Keys(ev.preClients) = {}
    /\ ~ev.result

\* C8 as stated: every observer waiting for async decoding on a StyleCachedImage,
\* or on an image-set image that is still pending, is one of its clients.
C8_WaitingAreClients ==
    /\ multi.state = "Pending" => multi.waiting \subseteq Keys(multi.clients)
    /\ \A s \in Images : img[s].waiting \subseteq Keys(img[s].clients)

\* C9: a frame that arrives while the image is not animating is announced only
\* to the observers waiting for async decoding, or, with the force flag set, to
\* the registered observers (to all of them when none unregisters meanwhile).
C9_OnlyWaitingNotified ==
    ev.op = "imageFrameAvailable" /\ ~ev.animating =>
        IF ev.preForce
        THEN /\ ev.notified \subseteq Keys(ev.preClients)
             /\ ev.removing = {} => ev.notified = Keys(ev.preClients)
        ELSE /\ ev.notified \subseteq ev.preWaiting
             /\ ev.removing = {} => ev.notified = ev.preWaiting

\* C9, reached: of two observers only the waiting one was called back.
C9_OneWaitingOneNot ==
    /\ ev.op = "imageFrameAvailable" /\ ~ev.animating /\ ~ev.preForce
    /\ Cardinality(Keys(ev.preClients)) = 2
    /\ Cardinality(ev.preWaiting) = 1
    /\ ev.notified = ev.preWaiting

\* C10: after a frame whose decoding status is not Partial the waiting set is
\* empty and the force flag is off.
C10_WaitingCleared ==
    ev.op = "imageFrameAvailable" /\ ~ev.partial =>
        img[ev.target].waiting = {} /\ ~img[ev.target].force

\* C10, reached: the set was not empty and the flag was on.
C10_ClearedBoth ==
    /\ ev.op = "imageFrameAvailable" /\ ~ev.partial
    /\ ev.preWaiting # {} /\ ev.preForce
    /\ img[ev.target].waiting = {} /\ ~img[ev.target].force

\* C11: removeClient that takes an observer's last registration away calls
\* styleImageClientRemoved exactly once on every client that remains, and
\* removeClient that leaves the observer registered calls it on no one.
C11_FullyRemovedNotified ==
    ev.op = "removeClient" =>
        ev.removedCalls =
            [ o \in Observers |->
                IF ev.preClients[ev.who] = 1 /\ o # ev.who /\ ev.preClients[o] > 0
                THEN 1 ELSE 0 ]

\* C11, reached: the last registration of one observer went away while another
\* observer held two registrations, and that one was called once.
C11_LastRegistrationRemoved ==
    /\ ev.op = "removeClient"
    /\ ev.preClients[ev.who] = 1
    /\ \E o \in Renderers \ { ev.who } :
         ev.preClients[o] = 2 /\ ev.removedCalls[o] = 1

\* C12: a renderer registered k times on the image-set image stays a client
\* (hasClient answers true) through every step that is not a removeClient of
\* its own, each removeClient takes exactly one registration away, and
\* hasClient answers false exactly from the removal that finds one
\* registration left.  A removeClient is a call by a renderer or a call a
\* renderer makes from inside an imageChanged callback.
C12_ClientUntilKthRemoval ==
    [][ \A c \in Renderers :
          LET k == Registry(World, "M").clients[c]
              removes ==
                  \/ ev'.op = "removeClient" /\ ev'.who = c
                  \/ /\ ev'.op = "imageChanged"
                     /\ ev'.target = StyleMultiImage_selectedImage(multi)
                     /\ c \in ev'.removing
          IN  /\ removes /\ k >= 1 =>
                  /\ Registry(World, "M").clients[c]' = k - 1
                  /\ StyleMultiImage_hasClient(World, c)' = (k >= 2)
              /\ ~removes =>
                  /\ Registry(World, "M").clients[c]' >= k
                  /\ ev'.op # "addClient" => Registry(World, "M").clients[c]' = k
                  /\ StyleMultiImage_hasClient(World, c) =>
                         StyleMultiImage_hasClient(World, c)' ]_vars

\* C12, reached: a renderer registered twice before the selection took its
\* first registration away on the selected image and is still a client.
C12_SecondOfTwoLeft ==
    /\ ev.op = "removeClient"
    /\ multi.state # "Pending"
    /\ ev.preClients[ev.who] = 2
    /\ StyleMultiImage_hasClient(World, ev.who)
    /\ img[multi.state].clients[ev.who] = 1

\* C13: in every step the load state of each handle stays what it was or moves
\* NotRequested -> Pending, Pending -> Loaded or Pending -> DecodeError; a
\* handle that is Loaded or in DecodeError therefore never changes again, and a
\* CSS value that has asked the loader once never asks again.
C13_LoadStateMachine ==
    [][ \A v \in CssValues :
          /\ \/ handle'[v].load = handle[v].load
             \/ << handle[v].load, handle'[v].load >> \in
                    { << "NotRequested", "Pending" >>,
                      << "Pending", "Loaded" >>,
                      << "Pending", "DecodeError" >> }
          /\ css[v] # "unset" => css'[v] = css[v] ]_vars

\* C13, reached: the handle of D ended in DecodeError, and style resolution
\* went on loading other images afterwards.
C13_LoadAfterDecodeError ==
    /\ handle["vD"].load = "DecodeError"
    /\ ev.op = "load"
    /\ ev.target \in { "A", "B", "M" }
    /\ loadCount["D"] = 1

\* C14: a StyleImage drawing from a StyleCachedImage whose handle is in
\* DecodeError answers true to errorOccurred(), whichever variant it is.
C14_DecodeErrorSurfaces ==
    \A t \in StyleImages :
        (\E s \in BackingImages(World, t) :
            /\ img[s].exists
            /\ img[s].cachedImage
            /\ handle[img[s].cssValue].load = "DecodeError")
        => ErrorOccurred(World, t)

\* C15: a StyleCachedImage whose load() got no handle from the loader has no
\* handle and answers false to hasImage() in that state and in every later
\* one, and so does an image-set image that selected it.
C15_NoHandleForever ==
    [][ \A s \in Images :
          (img[s].exists /\ loadCount[s] > 0 /\ ~img[s].cachedImage) =>
              /\ ~StyleCachedImage_hasImage(World, s)
              /\ ~img'[s].cachedImage
              /\ ~StyleCachedImage_hasImage(World, s)'
              /\ multi.state = s =>
                     /\ multi'.state = s
                     /\ ~StyleMultiImage_hasImage(World)' ]_vars

\* C15, reached: the loader refused D's request although it holds the decoded
\* resource, and style resolution went on to load another image.
C15_RefusedThenWentOn ==
    /\ img["D"].exists /\ loadCount["D"] = 1 /\ ~img["D"].cachedImage
    /\ css["vD"] = "null"
    /\ handle["vD"].image
    /\ ev.op = "load" /\ ev.target \in { "A", "B", "M" }

\* C16 (as stated): when imageCreated has run, every renderer whose
\* container-size request was queued has had it delivered to the image, and
\* the queue is empty.
C16_QueuedRequestsDelivered ==
    ev.op = "imageCreated" =>
        /\ \A r \in ev.preRequests : ev.delivered[r] = 1
        /\ img[ev.target].requests = {}

\* C16 (as amended): imageCreated delivers the queued request of each renderer
\* exactly once when the image uses a container size and delivers none when it
\* does not; the queue is empty afterwards in both cases.
C16_DeliveredIfContainerSizeUsed ==
    ev.op = "imageCreated" =>
        /\ ev.delivered = [ r \in Observers |->
                              IF ev.result /\ r \in ev.preRequests THEN 1 ELSE 0 ]
        /\ img[ev.target].requests = {}

\* C16, reached: two renderers had a request queued and the image created
\* uses a container size.
C16_TwoQueuedBothDelivered ==
    /\ ev.op = "imageCreated"
    /\ ev.result
    /\ ev.preRequests = Renderers
    /\ \A r \in Renderers : ev.delivered[r] = 1

\* C17: a StyleImage that has been destroyed is in no client set of an input
\* image, in no observer list of a canvas element and in no client set of a
\* CachedImage.
C17_DestroyedNotRegistered ==
    /\ \A g \in Generated : ~gen[g].alive => \A s \in Images : img[s].clients[g] = 0
    /\ ~canvas.alive => canvas.observed = {}
    /\ \A s \in Images : ~img[s].exists => hClients[s] = 0

\* C18: imageForRenderer with the empty size answers the null-image sentinel
\* (Image::nullImage()), and that is not what the same StyleImage answers at a
\* non-empty size while it is pending.
C18_EmptySizeIsNullImage ==
    (ev.op = "imageForRenderer" /\ ev.target \in { "F", "X", "M" } /\ ev.size = 0) =>
        /\ ev.answer = "nullImage"
        /\ IsPending(World, ev.target) =>
               ImageForRendererResult(World, ev.target, 1) # ev.answer

\* C19: a use of the canvas image while no canvas element of its name exists
\* answers "no image" (nullptr) and leaves errorOccurred() false; a use while
\* one exists answers the image of that element, whether it is the first
\* element or one that came after an earlier one was destroyed; and the
\* element the canvas image holds on to is never one that has gone away.
C19_CanvasRequeried ==
    /\ canvas.alive => canvas.element \in { 0, canvas.named }
    /\ (ev.op = "imageForRenderer" /\ ev.target = "K") =>
           /\ ev.image = canvas.named
           /\ ev.answer = IF canvas.named = 0 THEN "nullptr" ELSE "image"
           /\ ~ErrorOccurred(World, "K")

\* C19, reached: the canvas image held the first element, that element was
\* destroyed, a second one was registered, and the next use produced the
\* image of the second.
C19_SecondElementUsed ==
    /\ ev.op = "imageForRenderer" /\ ev.target = "K"
    /\ ev.preElement = 0
    /\ ev.image = 2
    /\ canvas.observed = { 2 }

\* C20: isPending() of every filter image and every cross-fade image is the
\* disjunction of isPending() over the inputs it has; with no input it is
\* false.
C20_PendingIsOrOfInputs ==
    \A g \in Generated :
        gen[g].alive =>
            (IsPending(World, g) <=> \E i \in PresentInputs(g) : IsPending(World, i))

\* C20, reached: the cross-fade image Y over A and B is pending because B is,
\* although A is not, and the filter image G without input is not pending.
C20_OneInputPending ==
    /\ gen["Y"].alive /\ gen["Y"].from = "A" /\ gen["Y"].to = "B"
    /\ ~IsPending(World, "A") /\ IsPending(World, "B")
    /\ IsPending(World, "Y")
    /\ gen["G"].alive /\ gen["G"].from = "-"
    /\ ~IsPending(World, "G")

\* C21 as stated: a filter image or cross-fade image that has no input at all
\* reports isPending() = true.
C21_NoInputsPending ==
    \A g \in { "G", "Y" } :
        (gen[g].alive /\ PresentInputs(g) = {}) => IsPending(World, g)

\* C21, amended: a filter image or cross-fade image that has no input at all
\* reports isPending() = false, before and after its load().
C21_NoInputsNotPending ==
    \A g \in { "G", "Y" } :
        (gen[g].alive /\ PresentInputs(g) = {}) => ~IsPending(World, g)

\* C21, reached: the filter image G and the cross-fade image Y were both built
\* without any input while A is still pending, and neither is pending.
C21_BothBuiltWithoutInput ==
    /\ gen["G"].alive /\ PresentInputs("G") = {}
    /\ gen["Y"].alive /\ PresentInputs("Y") = {}
    /\ IsPending(World, "A")
    /\ ~IsPending(World, "G") /\ ~IsPending(World, "Y")

\* C22: a cross-fade image whose two inputs are present and have the same
\* concrete size has exactly that size as natural dimensions, whatever the
\* percentage.
C22_SameSizeVerbatim ==
    (/\ ev.op = "naturalDimensionsForContext"
     /\ gen[ev.target].from # "-" /\ gen[ev.target].to # "-"
     /\ ev.context.from = ev.context.to) =>
        ev.dims = [ kind |-> "fixed", width |-> ev.context.from.width,
                    height |-> ev.context.from.height ]

\* C22, reached: two inputs of 100x50 at the percentage 0.0001 give 100x50.
C22_TinyPercentageSameSize ==
    /\ ev.op = "naturalDimensionsForContext" /\ ev.target = "Y"
    /\ gen["Y"].from = "A" /\ gen["Y"].to = "B" /\ gen["Y"].percentage = 1
    /\ ev.context.from = [ width |-> 100 * 64, height |-> 50 * 64 ]
    /\ ev.context.to = ev.context.from
    /\ ev.dims = [ kind |-> "fixed", width |-> 100 * 64, height |-> 50 * 64 ]

\* The weighted sum of two lengths, in ten-thousandths of a 64th of a pixel.
WeightedSum(g, fromLength, toLength) ==
    (10000 - gen[g].percentage) * fromLength + gen[g].percentage * toLength

\* A length is the weighted sum as far as 64ths of a pixel can hold it: exact
\* when both products are whole numbers of 64ths, and otherwise below the sum
\* by less than one 64th per input.
IsWeightedSum(length, g, fromLength, toLength) ==
    /\ length * 10000 <= WeightedSum(g, fromLength, toLength)
    /\ WeightedSum(g, fromLength, toLength) < (length + 2) * 10000
    /\ (/\ ((10000 - gen[g].percentage) * fromLength) % 10000 = 0
        /\ (gen[g].percentage * toLength) % 10000 = 0) =>
           length * 10000 = WeightedSum(g, fromLength, toLength)

\* C23: a cross-fade image whose two inputs are present and differ in size has
\* as natural width the sum of weight times width over its inputs and as
\* natural height the sum of weight times height, each on its own; m_from has
\* the weight 1 - percentage and m_to the weight percentage.
C23_DifferingSizesInterpolated ==
    (/\ ev.op = "naturalDimensionsForContext"
     /\ gen[ev.target].from # "-" /\ gen[ev.target].to # "-"
     /\ ev.context.from # ev.context.to) =>
        /\ ev.dims.kind = "fixed"
        /\ IsWeightedSum(ev.dims.width, ev.target,
                         ev.context.from.width, ev.context.to.width)
        /\ IsWeightedSum(ev.dims.height, ev.target,
                         ev.context.from.height, ev.context.to.height)

\* C23, reached: 100x100 with the weight 0.25 and 200x100 with the weight 0.75
\* give the width 175 and the height 100.
C23_QuarterAndThreeQuarters ==
    /\ ev.op = "naturalDimensionsForContext" /\ ev.target = "Y"
    /\ gen["Y"].from = "A" /\ gen["Y"].to = "B" /\ gen["Y"].percentage = 7500
    /\ ev.context.from = [ width |-> 100 * 64, height |-> 100 * 64 ]
    /\ ev.context.to = [ width |-> 200 * 64, height |-> 100 * 64 ]
    /\ ev.dims = [ kind |-> "fixed", width |-> 175 * 64, height |-> 100 * 64 ]

\* C24 as stated: a cross-fade image with exactly one input present has that
\* input's concrete size as natural dimensions, whatever the percentage.
C24_SingleInputVerbatim ==
    /\ (/\ ev.op = "naturalDimensionsForContext"
        /\ gen[ev.target].from # "-" /\ gen[ev.target].to = "-") =>
           ev.dims = [ kind |-> "fixed", width |-> ev.context.from.width,
                       height |-> ev.context.from.height ]
    /\ (/\ ev.op = "naturalDimensionsForContext"
        /\ gen[ev.target].from = "-" /\ gen[ev.target].to # "-") =>
           ev.dims = [ kind |-> "fixed", width |-> ev.context.to.width,
                       height |-> ev.context.to.height ]

\* C25 as stated: best-fit selection picks the candidate whose declared
\* resolution is closest to the device scale, exact match or not; {1x, 2x, 3x}
\* at 2.0 gives 2x and {1x, 2x} at 2.5 gives 2x.
C25_ClosestSelected ==
    ev.op = "selectBestFitImage" =>
        /\ ev.selected \in DOMAIN ev.candidates
        /\ \A j \in DOMAIN ev.candidates :
               ResolutionDistance(ev.candidates[ev.selected], ev.deviceScale)
                   <= ResolutionDistance(ev.candidates[j], ev.deviceScale)
        /\ (ev.candidates = << 2, 4, 6 >> /\ ev.deviceScale = 4) =>
               ev.candidates[ev.selected] = 4
        /\ (ev.candidates = << 2, 4 >> /\ ev.deviceScale = 5) =>
               ev.candidates[ev.selected] = 4

\* C25, amended: best-fit selection picks, without needing an exact match, the
\* candidate closest to the device scale among those whose resolution does not
\* exceed it, and the closest of all only when every candidate exceeds it;
\* {1x, 2x, 3x} at 2.0 gives 2x and {1x, 2x} at 2.5 gives 2x.
C25_ClosestNotExceedingSelected ==
    ev.op = "selectBestFitImage" =>
        LET lower == { j \in DOMAIN ev.candidates : ev.candidates[j] <= ev.deviceScale }
            among == IF lower = {} THEN DOMAIN ev.candidates ELSE lower
        IN  /\ ev.selected \in among
            /\ \A j \in among :
                   ResolutionDistance(ev.candidates[ev.selected], ev.deviceScale)
                       <= ResolutionDistance(ev.candidates[j], ev.deviceScale)
            /\ (ev.candidates = << 2, 4, 6 >> /\ ev.deviceScale = 4) =>
                   ev.candidates[ev.selected] = 4
            /\ (ev.candidates = << 2, 4 >> /\ ev.deviceScale = 5) =>
                   ev.candidates[ev.selected] = 4

\* C25, reached: {1x, 2x} on a device of scale 2.5 selects 2x, which is no
\* exact match.
C25_TwoXAtTwoAndAHalf ==
    /\ ev.op = "selectBestFitImage"
    /\ ev.candidates = << 2, 4 >> /\ ev.deviceScale = 5
    /\ ev.selected = 2

\* C26: in the size-keyed cache of a generated image, an eviction leaves the
\* evicted size absent and every other size as it was, a put changes only the
\* size it is for, and a get returns what the cache holds for the size, so a
\* get of a size that was put and then evicted returns absent.
C26_EvictOnlyThatSize ==
    [][ LET g == ev'.target
            size == ev'.size
        IN  /\ ev'.op = "evictCachedGeneratedImage" =>
                  /\ gen'[g].images[size] = 0
                  /\ \A other \in CachedSizes \ { size } :
                         gen'[g].images[other] = gen[g].images[other]
            /\ ev'.op = "saveCachedImageForSize" =>
                  /\ gen'[g].images[size] = ev'.image
                  /\ \A other \in CachedSizes \ { size } :
                         gen'[g].images[other] = gen[g].images[other]
            /\ ev'.op = "cachedImageForSize" =>
                  /\ ev'.image = gen[g].images[size]
                  /\ gen' = gen
            /\ ev'.op \in { "evictCachedGeneratedImage", "saveCachedImageForSize",
                            "cachedImageForSize" } =>
                  \A h \in Generated \ { g } : gen'[h] = gen[h] ]_vars

\* C26, reached: the image put for size 1 has just been evicted while the
\* image put for size 2 is still there.
C26_EvictedBesideKept ==
    /\ ev.op = "evictCachedGeneratedImage" /\ ev.target = "F"
    /\ ev.size = 1 /\ ev.image # 0
    /\ gen["F"].images[1] = 0
    /\ gen["F"].images[2] # 0

\* C27 as stated: the size a StyleCachedImage returns for a renderer is at
\* least 1 in every axis in which the size of its decoded image, before the
\* multiplier, is at least 1, for every multiplier and every scale factor.
C27_NeverBelowOne ==
    (/\ ev.op = "imageSizeForRenderer"
     /\ ~ev.svgResource
     /\ StyleCachedImage_image(World, ev.target)) =>
        /\ ev.imageSize.width >= 64 => ev.sizeResult.width >= 64
        /\ ev.imageSize.height >= 64 => ev.sizeResult.height >= 64

\* The StyleCachedImages whose decoded images the StyleImage t shows.
OpacitySources(t) ==
    CASE t \in Generated -> PresentInputs(t)
      [] t = "K" -> {}
      [] OTHER -> BackingImages(World, t)

\* The opacity of the StyleImage t is uncertain: it is still pending, it has no
\* decoded image yet, or one of its inputs is missing.
OpacityUncertain(t) ==
    \/ IsPending(World, t)
    \/ t \in Generated /\ (gen[t].from = "-" \/ (t = "Y" /\ gen[t].to = "-"))
    \/ \E s \in OpacitySources(t) : ~StyleCachedImage_image(World, s)
    \/ t = "M" /\ multi.state = "Pending"

\* C28 as stated: knownToBeOpaque() is false for every generated StyleImage and
\* for every StyleImage whose opacity is uncertain, and true only for a
\* StyleImage whose decoded image is established to be opaque.
C28_OpaqueOnlyIfEstablished ==
    ev.op = "knownToBeOpaque" =>
        /\ ev.target \in Generated \cup { "K" } => ~ev.opaque
        /\ OpacityUncertain(ev.target) => ~ev.opaque
        /\ ev.opaque =>
               \A s \in OpacitySources(ev.target) :
                   /\ StyleCachedImage_image(World, s)
                   /\ img[s].cssValue \in ev.opaqueFrames

\* C29 as stated: a filter image or cross-fade image answers "animation
\* allowed" to its input only if at least one of its own clients allows
\* animation; without clients it answers false.
C29_AllowedOnlyIfAClientAllows ==
    ev.op = "styleImageAnimationAllowed" =>
        (ev.result => \E c \in Keys(ev.preClients) : c \in ev.answers)

\* C30: imageFrameAvailable returns "visible" exactly when at least one
\* registered observer reports the image as visible in the viewport, and "not
\* visible" otherwise, also when no observer is asked.
C30_VisibleIfAnyReports ==
    ev.op = "imageFrameAvailable" =>
        /\ ev.answers \subseteq Keys(ev.preClients)
        /\ (ev.result <=> \E c \in Keys(ev.preClients) : c \in ev.answers)

\* C30, reached: two observers were asked, one reported the image visible and
\* the other did not, and the answer is "visible".
C30_OneOfTwoReportsVisible ==
    /\ ev.op = "imageFrameAvailable"
    /\ Cardinality(ev.notified) = 2
    /\ Cardinality(ev.answers) = 1
    /\ ev.result

\* C31 as stated: a StyleCachedImage that holds the CachedImage of its CSS
\* value, got in load(), found on the value at construction or found by a copy
\* made by copyOverridingScaleFactor, is registered as a client of that
\* CachedImage.
C31_HolderIsRegistered ==
    \A s \in Images :
        img[s].exists /\ img[s].cachedImage => hClients[s] > 0

\* The resource loads under the StyleImage t that have not completed: the
\* loads of the handles its present inputs hold and of the external document
\* its filter list names.
LoadsOutstanding(t) ==
    \/ \E s \in (IF t \in Generated THEN PresentInputs(t) ELSE { t }) :
           img[s].cachedImage /\ HandleOf(s).load \in { "NotRequested", "Pending" }
    \/ t \in Generated /\ gen[t].filterOperations \in { "NotRequested", "Pending" }

\* C32 as stated: styleImageFinishedLoad reaches a client of a StyleImage only
\* when every resource load under that StyleImage has completed: the load of
\* its own handle, the loads of the present inputs of a filter or cross-fade
\* image, and the loads the reference filters of a filter image started.
C32_FinishedLoadOnlyWhenAllLoaded ==
    ev.op = "notifyFinished" =>
        \A call \in ev.finishedLoad : ~LoadsOutstanding(call[1])

\* Every present input of the generated image g holds a handle whose load has
\* ended.
InputsFinished(g) ==
    /\ Alive(g)
    /\ PresentInputs(g) # {}
    /\ \A s \in PresentInputs(g) :
           img[s].cachedImage /\ HandleOf(s).load \in { "Loaded", "DecodeError" }

\* C33 as stated: once the last of the present inputs of a cross-fade image
\* has finished loading, each client registered on the cross-fade image at
\* that moment gets styleImageFinishedLoad for it, then or later.
C33_CrossfadeClientsToldOfFinishedLoad ==
    \A c \in Renderers :
        ( /\ ev.op = "notifyFinished"
          /\ ev.target \in PresentInputs("Y")
          /\ InputsFinished("Y")
          /\ gen["Y"].clients[c] > 0 )
            ~> (<< "Y", c >> \in ev.finishedLoad)

\* The generated images the last handler called back as clients of an input:
\* the clients a notification went to, and the only client of an input that
\* was asked whether decoded data may go or animation is allowed.
InputCallbackTargets ==
    CASE ev.op \in { "notifyFinished", "imageChanged", "imageFrameAvailable" } ->
           ev.notified \cap Generated
      [] ev.op \in { "canDestroyDecodedData", "allowsAnimation" }
         /\ Cardinality(Keys(ev.preClients)) = 1 ->
           Keys(ev.preClients) \cap Generated
      [] OTHER -> {}

\* C34 as stated: a notification or query from an input reaches a filter or
\* cross-fade image only after the load() of that image has set its
\* inputs-ready flag.
C34_InputCallbacksAfterReady ==
    \A g \in InputCallbackTargets : gen[g].ready

\* C35 as stated: addClient and removeClient run on a StyleCachedImage only
\* while it is not pending, whoever calls: a renderer, the constructor or
\* destructor of a filter or cross-fade image registering on its input, or
\* the image-set image handing its queued clients to the selected image.
C35_ClientCallsOnlyWhenNotPending ==
    \A s \in Images : ~img[s].usedWhilePending

\* C36 as stated: an observer for which the pending image-set image answered
\* isClientWaitingForAsyncDecoding with true right before load(), through the
\* waiting set or through the force flag, still gets true from it right after
\* load() has handed the queue to the selected image.
C36_WaitingSurvivesTransfer ==
    ev.op = "load" /\ ev.target = "M" =>
        \A c \in Renderers :
            (ev.preForce \/ c \in ev.preWaiting) =>
                StyleMultiImage_isClientWaitingForAsyncDecoding(World, c)

\* C37 as stated: an image-set image compared with itself is equal, before
\* load() and after it.
C37_EqualsIsReflexive ==
    ev.op = "equals" => ev.result

\* C38 as stated: when endAttribute has closed a sequence of beginAttribute,
\* appendToAttributeName and appendToAttributeValue calls, iterating the list
\* from begin() reaches end() after exactly size() steps and yields the names
\* and values as they were appended, in order.
C38_IterationYieldsAppended ==
    ev.op = "endAttribute" =>
        LET iteration == HTMLTokenAttributeList_iterate(token.m_attributes, 0)
        IN  /\ iteration.reachedEnd
            /\ Len(iteration.attributes) = HTMLTokenAttributeList_size(token.m_attributes)
            /\ iteration.attributes = token.m_attributes.appended

\* C39 as stated: every write into the attribute buffer, of a name character,
\* a value character or a length slot, is at an index strictly below the
\* capacity the buffer has when it is written.
C39_WritesBelowCapacity ==
    \A write \in token.m_attributes.writes : write.index < write.capacity

\* C40 as stated: the type of a token that is not Uninitialized changes only
\* by clear().
C40_TypeFixedUntilClear ==
    [][ token.m_type # "Uninitialized" /\ token'.m_type # token.m_type
          => ev'.op = "clear" ]_vars

====
